---- MODULE Spec2Model ----
(***************************************************************************)
(* Model of the keyword highlighting script of src/1.py ("Destaca texto de *)
(* imagem"): detectar_e_destacar_palavras, the per-image core, and         *)
(* processar_imagens, the batch driver that calls it; and of three of the   *)
(* PDF tools: obter_intervalo_paginas and criar_pdfs_individuais of         *)
(* src/Imagens-PDF.py and the two image extractors of src/1.py.             *)
(*                                                                         *)
(* A Python string is a sequence of one-character strings; an image is the *)
(* ordered list of ImageDraw calls applied to its original pixels; the     *)
(* pixel colour is what the last call touching the pixel painted.          *)
(***************************************************************************)
EXTENDS Integers, Sequences, FiniteSets, TLC

VARIABLES
  pc,                   \* position inside detectar_e_destacar_palavras
  imagem_path,          \* argument: the image being processed (its index)
  caminho_destino,      \* argument: destination folder
  palavras_chave,       \* argument: list of key phrases
  ocultar_palavras,     \* argument: cover flag
  numerar_palavras,     \* argument: number flag
  ocr,                  \* what Tesseract returns for the image: [texto_completo, dados]
  texto_encontrado,     \* result of the full-text gate
  coordenadas_palavras, \* the filtered word boxes
  fi,                   \* 1-based index of the key phrase the outer loop is at
  palavras_encontradas, \* counter of highlighted occurrences
  destaques,            \* covered regions recorded for numbering
  desenho,              \* draw calls applied to the image so far, in order
  regioes,              \* history: regions highlighted so far, in order
  erro,                 \* exception caught by the function's except clause
  retorno,              \* returned tuple <<sucesso, ocorrencias, encontrou>>
  arquivos,             \* files present in the destination folders
  bpc,                  \* position inside processar_imagens ("direto": not running)
  opcoes,               \* argument of processar_imagens
  imagens,              \* number of images listar_imagens found; image k is 1..imagens
  atual,                \* index of the image the loop is at
  conteudo,             \* what OCR returns for the image the loop is at
  gabarito,             \* tuple returned by the Gabarito call of the current image
  imagens_processadas,
  imagens_com_erro,
  imagens_sem_palavras,
  imagens_deletadas,
  total_palavras_destacadas,
  tentativas,           \* history: the images the loop has taken, in order
  resultados,           \* history: <<sucesso, palavras_destacadas, encontrou_palavras>> per image
  ipc,                  \* position inside obter_intervalo_paginas
  total_paginas,        \* argument of obter_intervalo_paginas
  intervalo,            \* the line read by input(), stripped
  mensagem,             \* the error message printed for the last line
  perguntas,            \* history: number of lines read so far
  retorno_intervalo,    \* returned pair <<inicio, fim>>
  ppc,                  \* position inside criar_pdfs_individuais
  lista_imagens,        \* argument imagens: the paths [nome, ext] of the images
  indice,               \* index of the image the loop is at
  pdfs,                 \* names of the files present in pasta_saida
  sucessos,
  falhas,
  retorno_pdfs,         \* returned value, <<>> before the return
  epc,                  \* position inside the extractor
  extrator,             \* which extractor runs: "embutidas" or "anatomia"
  paginas,              \* per page of the PDF, the number of images (or contours) on it
  pagina,               \* index of the page the loop is at
  item,                 \* index, within the page, of the image the loop is at
  contador,             \* img_count / contador_imagens
  salvos,               \* history: the numbers of the files saved, in order
  relatado,             \* the count printed at the end, <<>> before
  documento,            \* the PDF handle: "nenhum", "aberto" or "fechado"
  erros_de_pagina,      \* history: the pages for which "Erro ao processar a página" was printed
  cpc,                  \* position inside the erase-all-text script
  n_imagens,            \* number of images listar_imagens found in the folder
  imagem,               \* index of the image the loop is at
  dados_ocr,            \* what image_to_data returns for that image
  rabisco,              \* draw calls applied to that image so far (its "desenho")
  total_blocos_cobertos,
  saida,                \* <<draw calls>> of the file saved for that image, <<>> before
  retorno_cobrir,       \* returned pair <<sucesso, blocos_cobertos>>
  processadas,          \* imagens_processadas of the erase-all-text script
  com_erro,             \* imagens_com_erro of the erase-all-text script
  total_blocos_texto,
  blocos,               \* history: blocos_cobertos of each image that succeeded
  dpc,                  \* position inside extrair_paginas_pdf
  paginas_do_pdf,       \* len(pdf_reader.pages); the pages are 1..paginas_do_pdf
  intervalos,           \* argument: the pairs <<inicio, fim>>, in the order entered
  combinar,             \* argument
  proximo,              \* index of the interval the loop is at
  pdf_writer,           \* the pages added to the writer so far, in order
  arquivos_saida,       \* the files written: [nome, paginas]
  retorno_dividir       \* returned value, <<>> before the return

core_vars == <<pc, imagem_path, caminho_destino, palavras_chave, ocultar_palavras,
               numerar_palavras, ocr, texto_encontrado, coordenadas_palavras, fi,
               palavras_encontradas, destaques, desenho, regioes, erro, retorno,
               arquivos>>

lote_vars == <<bpc, opcoes, imagens, atual, conteudo, gabarito, imagens_processadas,
               imagens_com_erro, imagens_sem_palavras, imagens_deletadas,
               total_palavras_destacadas, tentativas, resultados>>

intervalo_vars == <<ipc, total_paginas, intervalo, mensagem, perguntas, retorno_intervalo>>

pdfs_vars == <<ppc, lista_imagens, indice, pdfs, sucessos, falhas, retorno_pdfs>>

extrair_vars == <<epc, extrator, paginas, pagina, item, contador, salvos, relatado,
                  documento, erros_de_pagina>>

cobrir_vars == <<cpc, n_imagens, imagem, dados_ocr, rabisco, total_blocos_cobertos,
                 saida, retorno_cobrir, processadas, com_erro, total_blocos_texto, blocos>>

dividir_vars == <<dpc, paginas_do_pdf, intervalos, combinar, proximo, pdf_writer,
                  arquivos_saida, retorno_dividir>>

outros_vars == <<intervalo_vars, pdfs_vars, extrair_vars, cobrir_vars, dividir_vars>>

imagens_vars == <<core_vars, lote_vars>>

vars == <<core_vars, lote_vars, outros_vars>>

(***************************************************************************)
(* Bounds of the model.                                                    *)
(***************************************************************************)
MaxBoxes == 2      \* OCR entries per image
MaxFrases == 2     \* key phrases per call
MaxImagens == 2    \* images in the folder of a batch

(***************************************************************************)
(* Program constants.                                                      *)
(***************************************************************************)
ConfMinima == 30         \* dados['conf'][i] > 30
espessura == 2           \* outward offset of the highlight rectangle
LarguraContorno == 3     \* width=3 of the highlight rectangle
FonteMinima == 12        \* max(tamanho_fonte, 12)
MargemNumero == 2        \* "+ 2" of the label clamp
Branco == "branco"       \* fill=(255, 255, 255)
Vermelho == "vermelho"   \* outline=(255, 0, 0)
Azul == "azul"           \* fill=(0, 0, 255)
Original == "original"   \* a pixel no draw call has touched

(***************************************************************************)
(* Python strings.                                                         *)
(***************************************************************************)
LowerChar(c) == CASE c = "A" -> "a" [] c = "B" -> "b" [] OTHER -> c

\* str.lower()
Lower(s) == [i \in 1..Len(s) |-> LowerChar(s[i])]

\* sub in s
In(sub, s) == \E i \in 0..(Len(s) - Len(sub)) : SubSeq(s, i + 1, i + Len(sub)) = sub

RECURSIVE LStrip(_)
LStrip(s) == IF s # <<>> /\ Head(s) = " " THEN LStrip(Tail(s)) ELSE s

RECURSIVE RStrip(_)
RStrip(s) == IF s # <<>> /\ s[Len(s)] = " " THEN RStrip(SubSeq(s, 1, Len(s) - 1)) ELSE s

\* str.strip()
Strip(s) == RStrip(LStrip(s))

RECURSIVE SplitAux(_, _, _)
SplitAux(s, cur, acc) ==
  IF s = <<>> THEN (IF cur = <<>> THEN acc ELSE Append(acc, cur))
  ELSE IF Head(s) = " "
       THEN SplitAux(Tail(s), <<>>, IF cur = <<>> THEN acc ELSE Append(acc, cur))
       ELSE SplitAux(Tail(s), Append(cur, Head(s)), acc)

\* str.split(): the maximal runs of non-blank characters
Split(s) == SplitAux(s, <<>>, <<>>)

Digito(d) == CASE d = 0 -> "0" [] d = 1 -> "1" [] d = 2 -> "2" [] d = 3 -> "3"
               [] d = 4 -> "4" [] d = 5 -> "5" [] d = 6 -> "6" [] d = 7 -> "7"
               [] d = 8 -> "8" [] d = 9 -> "9"

RECURSIVE Str(_)
\* str(i) of a natural number
Str(n) == IF n < 10 THEN <<Digito(n)>> ELSE Append(Str(n \div 10), Digito(n % 10))

(***************************************************************************)
(* Small helpers.                                                          *)
(***************************************************************************)
Min(S) == CHOOSE x \in S : \A y \in S : x <= y
Max(S) == CHOOSE x \in S : \A y \in S : x >= y

RECURSIVE Ordenado(_)
\* the elements of a finite set of integers in increasing order
Ordenado(S) == IF S = {} THEN <<>> ELSE <<Min(S)>> \o Ordenado(S \ {Min(S)})

SeqsAte(S, n) == UNION {[1..k -> S] : k \in 0..n}

RECURSIVE Concat(_)
Concat(ss) == IF ss = <<>> THEN <<>> ELSE Head(ss) \o Concat(Tail(ss))

(***************************************************************************)
(* Inputs: what Tesseract can return for an image, and the key phrases.    *)
(***************************************************************************)
\* One entry of pytesseract.image_to_data: text, confidence and box.
Linhas ==
  { [text |-> <<" ", "B">>, conf |-> 80, left |-> 4,  top |-> 4, width |-> 6, height |-> 4],
    [text |-> <<"A", "b">>, conf |-> 80, left |-> 9,  top |-> 5, width |-> 6, height |-> 4],
    [text |-> <<"a">>,      conf |-> 80, left |-> 16, top |-> 4, width |-> 4, height |-> 4],
    [text |-> <<"a">>,      conf |-> 30, left |-> 4,  top |-> 4, width |-> 6, height |-> 4],
    [text |-> <<" ">>,      conf |-> 80, left |-> 9,  top |-> 5, width |-> 6, height |-> 4] }

RECURSIVE JuntarTextos(_)
JuntarTextos(dados) ==
  IF dados = <<>> THEN <<>>
  ELSE IF Len(dados) = 1 THEN dados[1].text
  ELSE dados[1].text \o <<" ">> \o JuntarTextos(Tail(dados))

\* pytesseract.image_to_string is a second OCR pass: its text either agrees with
\* the entries of image_to_data or does not (here: it is empty).
TextosCompletos(dados) == {JuntarTextos(dados), <<>>}

ResultadosOCR(n) ==
  UNION { {[texto_completo |-> t, dados |-> d] : t \in TextosCompletos(d)} :
          d \in SeqsAte(Linhas, n) }

\* imagem.size of the image Image.open returns; an OCR entry may reach beyond it
LarguraImagem == 20
AlturaImagem == 8

\* Key phrases a caller can pass: a word, a two-word phrase in mixed case, and
\* a phrase made only of a blank.
Frases == { <<"a">>, <<"A", " ", "b">>, <<" ">> }

\* Per-glyph <<width, height>> the loaded font can report (a digit that fits
\* the word boxes, a digit larger than them).
MetricasDeFonte == { <<1, 3>>, <<6, 11>> }

SemRetorno == <<>>

(***************************************************************************)
(* detectar_e_destacar_palavras: the pure parts.                           *)
(***************************************************************************)
\* the list with every repeated entry dropped (here: made unmatchable)
PalavrasChaveSemRepetidas(pcs) ==
  [i \in 1..Len(pcs) |->
     IF \E j \in 1..(i - 1) : Lower(pcs[j]) = Lower(pcs[i]) THEN <<"#">>
     ELSE Lower(pcs[i])]

\* palavras_chave_lower
PalavrasChaveLower(pcs) == [i \in 1..Len(pcs) |-> Lower(pcs[i])]

\* the gate with the test against the text left out
GateSemTexto(pcs, texto_completo) == pcs # <<>>

\* the full-text gate
GateTextoCompleto(pcs, texto_completo) ==
  \E i \in 1..Len(pcs) : In(PalavrasChaveLower(pcs)[i], Lower(texto_completo))

\* the threshold taken as "at least 30"
ManterEntradaComLimite(d) == d.conf >= ConfMinima /\ Strip(d.text) # <<>>

\* dados['conf'][i] > 30 and dados['text'][i].strip()
ManterEntrada(d) == d.conf > ConfMinima /\ Strip(d.text) # <<>>

\* coordenadas_palavras: the entries kept, in OCR order
CoordenadasDe(dados) ==
  LET kept == SelectSeq(dados, ManterEntrada)
  IN  [i \in 1..Len(kept) |->
         [texto |-> Strip(kept[i].text), x |-> kept[i].left, y |-> kept[i].top,
          largura |-> kept[i].width, altura |-> kept[i].height]]

\* ' ' in palavra_chave
FraseMultipla(frase) == In(<<" ">>, frase)

\* the range one short: range(len(coordenadas_palavras) - len(palavras_da_frase))
IndicesDaJanelaCurta(n, m) == 0..(n - m - 1)

\* range(len(coordenadas_palavras) - len(palavras_da_frase) + 1), 0-based
IndicesDaJanela(n, m) == 0..(n - m)

\* the guard "if i+j >= len(coordenadas_palavras)", 0-based idx
DentroDaSequencia(coords, idx) == idx < Len(coords)

\* sequencia_encontrada for the window starting at 0-based i
JanelaCasa(coords, toks, i) ==
  \A j \in 0..(Len(toks) - 1) :
     /\ DentroDaSequencia(coords, i + j)
     /\ In(toks[j + 1], Lower(coords[i + j + 1].texto))

\* equality in place of the substring test
PalavraCasaExata(coords, frase, i) == frase = Lower(coords[i + 1].texto)

\* palavra_chave in coord['texto'].lower()
PalavraCasa(coords, frase, i) == In(frase, Lower(coords[i + 1].texto))

\* the 0-based start indices at which the loops find the phrase, in loop order
Inicios(coords, frase) ==
  IF FraseMultipla(frase)
  THEN Ordenado({i \in IndicesDaJanela(Len(coords), Len(Split(frase))) :
                   JanelaCasa(coords, Split(frase), i)})
  ELSE Ordenado({i \in 0..(Len(coords) - 1) : PalavraCasa(coords, frase, i)})

\* the vertical extent taken from the first box alone
RegiaoDaJanelaPrimeira(coords, i, m) ==
  [xmin |-> coords[i + 1].x,
   ymin |-> coords[i + 1].y,
   xmax |-> coords[i + m].x + coords[i + m].largura,
   ymax |-> coords[i + 1].y + coords[i + 1].altura]

\* x_min, y_min, x_max, y_max of a window of m boxes starting at 0-based i
RegiaoDaJanela(coords, i, m) ==
  [xmin |-> coords[i + 1].x,
   ymin |-> Min({coords[i + j + 1].y : j \in 0..(m - 1)}),
   xmax |-> coords[i + m].x + coords[i + m].largura,
   ymax |-> Max({coords[i + j + 1].y + coords[i + j + 1].altura : j \in 0..(m - 1)})]

\* the box grown by the outline's offset
RegiaoDaPalavraComMargem(coords, i) ==
  [xmin |-> coords[i + 1].x - espessura,
   ymin |-> coords[i + 1].y - espessura,
   xmax |-> coords[i + 1].x + coords[i + 1].largura + espessura,
   ymax |-> coords[i + 1].y + coords[i + 1].altura + espessura]

\* x, y, x+largura, y+altura of one box
RegiaoDaPalavra(coords, i) ==
  [xmin |-> coords[i + 1].x,
   ymin |-> coords[i + 1].y,
   xmax |-> coords[i + 1].x + coords[i + 1].largura,
   ymax |-> coords[i + 1].y + coords[i + 1].altura]

\* number of boxes of a match of the phrase
TamanhoDaJanela(frase) == IF FraseMultipla(frase) THEN Len(Split(frase)) ELSE 1

RegiaoDe(coords, frase, i) ==
  IF FraseMultipla(frase) THEN RegiaoDaJanela(coords, i, Len(Split(frase)))
  ELSE RegiaoDaPalavra(coords, i)

(***************************************************************************)
(* Drawing: the ImageDraw calls and the pixels they paint.                 *)
(***************************************************************************)
\* the cover without the box's extent: [x, y, x, y]
CoberturaSemExtensao(r) ==
  [tipo |-> "fill", x0 |-> r.xmin, y0 |-> r.ymin, x1 |-> r.xmin, y1 |-> r.ymin,
   txt |-> <<>>]

\* desenho.rectangle([x0, y0, x1, y1], fill=(255, 255, 255))
Cobertura(r) ==
  [tipo |-> "fill", x0 |-> r.xmin, y0 |-> r.ymin, x1 |-> r.xmax, y1 |-> r.ymax,
   txt |-> <<>>]

\* desenho.rectangle([x0-2, y0-2, x1+2, y1+2], outline=(255, 0, 0), width=3)
Contorno(r) ==
  [tipo |-> "outline", x0 |-> r.xmin - espessura, y0 |-> r.ymin - espessura,
   x1 |-> r.xmax + espessura, y1 |-> r.ymax + espessura, txt |-> <<>>]

\* the draw calls of one highlighted region, in the order the code makes them
DesenhoDaRegiao(r, ocultar) ==
  (IF ocultar THEN <<Cobertura(r)>> ELSE <<>>) \o <<Contorno(r)>>

\* the entry appended to destaques for a covered region
DestaqueDe(r) ==
  [x |-> r.xmin + (r.xmax - r.xmin) \div 2,
   y |-> r.ymin + (r.ymax - r.ymin) \div 2,
   largura |-> r.xmax - r.xmin,
   altura |-> r.ymax - r.ymin]

\* the append made outside "if ocultar_palavras"
RegistraSempre(ocultar, numerar) == numerar

\* whether the region is recorded for numbering
RegistraDestaque(ocultar, numerar) == ocultar /\ numerar

\* ImageDraw.rectangle with x1 < x0 or y1 < y0: recent Pillow raises ValueError
RetanguloInvertido(op) == op.x1 < op.x0 \/ op.y1 < op.y0

\* the pixel <<px, py>> lies in the (coordinate-sorted, inclusive) box of a call
NaCaixa(op, px, py) ==
  /\ Min({op.x0, op.x1}) <= px /\ px <= Max({op.x0, op.x1})
  /\ Min({op.y0, op.y1}) <= py /\ py <= Max({op.y0, op.y1})

\* the stroke of an outline grows inwards from its box
NoInterior(op, px, py) ==
  /\ Min({op.x0, op.x1}) + LarguraContorno <= px
  /\ px <= Max({op.x0, op.x1}) - LarguraContorno
  /\ Min({op.y0, op.y1}) + LarguraContorno <= py
  /\ py <= Max({op.y0, op.y1}) - LarguraContorno

\* the draw call paints the pixel
Pinta(op, px, py) ==
  IF op.tipo = "outline" THEN NaCaixa(op, px, py) /\ ~NoInterior(op, px, py)
  ELSE NaCaixa(op, px, py)

CorDe(op) == CASE op.tipo = "fill" -> Branco
               [] op.tipo = "outline" -> Vermelho
               [] op.tipo = "text" -> Azul

\* colour of a pixel of an image given by its draw calls
CorDoPixel(ops, px, py) ==
  LET toca == {i \in 1..Len(ops) : Pinta(ops[i], px, py)}
  IN  IF toca = {} THEN Original ELSE CorDe(ops[Max(toca)])

(***************************************************************************)
(* Numbering (the loop over destaques).                                    *)
(***************************************************************************)
\* tamanho_fonte
TamanhoFonte(d) == Max({Min({d.largura, d.altura}) \div 2, FonteMinima})

\* largura_texto // 2 and altura_texto // 2: measured by the font, or the
\* estimate len(numero_str) * tamanho_fonte * 0.6 and tamanho_fonte
MeiaLargura(d, txt, metrica, medido) ==
  IF medido THEN (Len(txt) * metrica[1]) \div 2
  ELSE (Len(txt) * TamanhoFonte(d) * 6) \div 20

MeiaAltura(d, txt, metrica, medido) ==
  IF medido THEN metrica[2] \div 2 ELSE TamanhoFonte(d) \div 2

\* the origin without the two max(...) lines
PosicaoCentrada(d, txt, fonte, metrica, medido) ==
  IF fonte
  THEN <<d.x - MeiaLargura(d, txt, metrica, medido),
         d.y - MeiaAltura(d, txt, metrica, medido)>>
  ELSE <<d.x - 5, d.y - 10>>

\* origin of the label
PosicaoDoNumero(d, txt, fonte, metrica, medido) ==
  IF fonte
  THEN <<Max({d.x - MeiaLargura(d, txt, metrica, medido),
              d.x - d.largura \div 2 + MargemNumero}),
         Max({d.y - MeiaAltura(d, txt, metrica, medido),
              d.y - d.altura \div 2 + MargemNumero})>>
  ELSE <<d.x - 5, d.y - 10>>

\* desenho.text(origin, numero_str, fill=(0, 0, 255)), with font=fonte when a
\* font was loaded: the glyph box it paints
Rotulo(i, d, fonte, metrica, medido) ==
  LET txt == Str(i)
      pos == PosicaoDoNumero(d, txt, fonte, metrica, medido)
  IN  [tipo |-> "text", x0 |-> pos[1], y0 |-> pos[2],
       x1 |-> pos[1] + Len(txt) * metrica[1] - 1, y1 |-> pos[2] + metrica[2] - 1,
       txt |-> txt, fonte |-> fonte]

\* enumerate(destaques): numbering from 0
RotulosDesdeZero(ds, fonte, metrica, medido) ==
  [i \in 1..Len(ds) |-> Rotulo(i - 1, ds[i], fonte, metrica, medido)]

\* enumerate(destaques, 1)
Rotulos(ds, fonte, metrica, medido) ==
  [i \in 1..Len(ds) |-> Rotulo(i, ds[i], fonte, metrica, medido)]

(***************************************************************************)
(* detectar_e_destacar_palavras, step by step.  Everything runs inside one *)
(* try block: any exception ends the call with (False, 0, False).          *)
(***************************************************************************)
RetornoDeErro == <<FALSE, 0, FALSE>>

\* "found" taken from the count of occurrences
RetornoPelaContagem(encontrado, ocorrencias) ==
  IF encontrado THEN <<TRUE, ocorrencias, ocorrencias > 0>> ELSE <<TRUE, 0, FALSE>>

\* "return True, 0, False" after a gate miss, "return True, palavras_encontradas,
\* True" at the end
RetornoDeSucesso(encontrado, ocorrencias) ==
  IF encontrado THEN <<TRUE, ocorrencias, TRUE>> ELSE <<TRUE, 0, FALSE>>

\* the except clause
Excecao(tipo) ==
  /\ erro' = tipo
  /\ retorno' = RetornoDeErro
  /\ pc' = "retorno"

\* Exception raised while the match starting at 0-based i is handled, or "nenhum":
\* coordenadas_palavras[i] out of range, min() of an empty sequence, or a
\* rectangle Pillow refuses (estrito: the installed Pillow raises on it).
FalhaNaRegiao(coords, frase, i, ocultar, estrito) ==
  IF ~FraseMultipla(frase) THEN "nenhum"
  ELSE IF ~DentroDaSequencia(coords, i) THEN "IndexError"
  ELSE IF Split(frase) = <<>> THEN "ValueError"
  ELSE IF /\ estrito
          /\ \E k \in 1..Len(DesenhoDaRegiao(RegiaoDe(coords, frase, i), ocultar)) :
                RetanguloInvertido(DesenhoDaRegiao(RegiaoDe(coords, frase, i), ocultar)[k])
       THEN "ValueError"
  ELSE "nenhum"

\* position in the list of matches of the first one that raises, 0 if none
PrimeiraFalha(coords, frase, ocultar, estrito) ==
  LET ini == Inicios(coords, frase)
      ruins == {q \in 1..Len(ini) :
                  FalhaNaRegiao(coords, frase, ini[q], ocultar, estrito) # "nenhum"}
  IN  IF ruins = {} THEN 0 ELSE Min(ruins)

\* the matches of the phrase that get highlighted, in loop order
Destacadas(coords, frase, ocultar, estrito) ==
  LET ini == Inicios(coords, frase)
      q == PrimeiraFalha(coords, frase, ocultar, estrito)
  IN  IF q = 0 THEN ini ELSE SubSeq(ini, 1, q - 1)

\* Image.open, convert, image_to_string, image_to_data, the gate, and the
\* construction of coordenadas_palavras
AbrirImagem ==
  /\ pc = "inicio"
  /\ UNCHANGED <<lote_vars, outros_vars>>
  /\ texto_encontrado' = GateTextoCompleto(palavras_chave, ocr.texto_completo)
  /\ palavras_encontradas' = 0
  /\ IF texto_encontrado'
     THEN /\ coordenadas_palavras' = CoordenadasDe(ocr.dados)
          /\ fi' = 1
          /\ pc' = "frases"
     ELSE /\ pc' = "salvar"
          /\ UNCHANGED <<coordenadas_palavras, fi>>
  /\ UNCHANGED <<imagem_path, caminho_destino, palavras_chave, ocultar_palavras,
                 numerar_palavras, ocr, destaques, desenho, regioes, erro, retorno,
                 arquivos>>

\* Image.open or an OCR call raises
FalhaAoAbrir ==
  /\ pc = "inicio"
  /\ UNCHANGED <<lote_vars, outros_vars>>
  /\ Excecao("IOError")
  /\ UNCHANGED <<imagem_path, caminho_destino, palavras_chave, ocultar_palavras,
                 numerar_palavras, ocr, texto_encontrado, coordenadas_palavras, fi,
                 palavras_encontradas, destaques, desenho, regioes, arquivos>>

\* one iteration of "for palavra_chave in palavras_chave_lower"; estrito: the
\* installed Pillow rejects a rectangle with x1 < x0 (older ones draw it sorted)
DestacarFrase ==
  /\ pc = "frases"
  /\ UNCHANGED <<lote_vars, outros_vars>>
  /\ \E estrito \in BOOLEAN :
       LET frase == PalavrasChaveLower(palavras_chave)[fi]
           coords == coordenadas_palavras
           ini == Inicios(coords, frase)
           q == PrimeiraFalha(coords, frase, ocultar_palavras, estrito)
           feitas == Destacadas(coords, frase, ocultar_palavras, estrito)
           novas == [p \in 1..Len(feitas) |->
                       [frase |-> fi, i |-> feitas[p], k |-> TamanhoDaJanela(frase),
                        coberta |-> ocultar_palavras,
                        caixa |-> RegiaoDe(coords, frase, feitas[p])]]
       IN  /\ regioes' = regioes \o novas
           /\ desenho' = desenho \o
                Concat([p \in 1..Len(novas) |->
                          DesenhoDaRegiao(novas[p].caixa, ocultar_palavras)])
           /\ destaques' =
                IF RegistraDestaque(ocultar_palavras, numerar_palavras)
                THEN destaques \o [p \in 1..Len(novas) |-> DestaqueDe(novas[p].caixa)]
                ELSE destaques
           /\ palavras_encontradas' = palavras_encontradas + Len(novas)
           /\ IF q # 0
              THEN /\ Excecao(FalhaNaRegiao(coords, frase, ini[q], ocultar_palavras, estrito))
                   /\ UNCHANGED fi
              ELSE /\ IF fi = Len(palavras_chave)
                      THEN pc' = "numerar" /\ UNCHANGED fi
                      ELSE pc' = "frases" /\ fi' = fi + 1
                   /\ UNCHANGED <<erro, retorno>>
  /\ UNCHANGED <<imagem_path, caminho_destino, palavras_chave, ocultar_palavras,
                 numerar_palavras, ocr, texto_encontrado, coordenadas_palavras,
                 arquivos>>

\* "if numerar_palavras and destaques": one label per entry of destaques
Numerar ==
  /\ pc = "numerar"
  /\ UNCHANGED <<lote_vars, outros_vars>>
  /\ IF numerar_palavras /\ destaques # <<>>
     THEN \E fonte \in BOOLEAN, metrica \in MetricasDeFonte, medido \in BOOLEAN :
            /\ fonte \/ medido
            /\ desenho' = desenho \o Rotulos(destaques, fonte, metrica, medido)
     ELSE UNCHANGED desenho
  /\ pc' = "salvar"
  /\ UNCHANGED <<imagem_path, caminho_destino, palavras_chave, ocultar_palavras,
                 numerar_palavras, ocr, texto_encontrado, coordenadas_palavras, fi,
                 palavras_encontradas, destaques, regioes, erro, retorno, arquivos>>

\* imagem.save(caminho_destino / imagem_path.name) and the return that follows
SalvarImagem ==
  /\ pc = "salvar"
  /\ UNCHANGED <<lote_vars, outros_vars>>
  /\ arquivos' = {f \in arquivos : ~(f.pasta = caminho_destino /\ f.nome = imagem_path)}
                   \cup {[pasta |-> caminho_destino, nome |-> imagem_path,
                          conteudo |-> desenho]}
  /\ retorno' = RetornoDeSucesso(texto_encontrado, palavras_encontradas)
  /\ pc' = "retorno"
  /\ UNCHANGED <<imagem_path, caminho_destino, palavras_chave, ocultar_palavras,
                 numerar_palavras, ocr, texto_encontrado, coordenadas_palavras, fi,
                 palavras_encontradas, destaques, desenho, regioes, erro>>

\* imagem.save raises
FalhaAoSalvar ==
  /\ pc = "salvar"
  /\ UNCHANGED <<lote_vars, outros_vars>>
  /\ Excecao("IOError")
  /\ UNCHANGED <<imagem_path, caminho_destino, palavras_chave, ocultar_palavras,
                 numerar_palavras, ocr, texto_encontrado, coordenadas_palavras, fi,
                 palavras_encontradas, destaques, desenho, regioes, arquivos>>

\* state of a call that has just been made
Chamada(img, pasta, pcs, ocultar, numerar, res) ==
  /\ pc = "inicio"
  /\ imagem_path = img
  /\ caminho_destino = pasta
  /\ palavras_chave = pcs
  /\ ocultar_palavras = ocultar
  /\ numerar_palavras = numerar
  /\ ocr = res
  /\ texto_encontrado = FALSE
  /\ coordenadas_palavras = <<>>
  /\ fi = 0
  /\ palavras_encontradas = 0
  /\ destaques = <<>>
  /\ desenho = <<>>
  /\ regioes = <<>>
  /\ erro = "nenhum"
  /\ retorno = SemRetorno

(***************************************************************************)
(* obter_opcoes_usuario and processar_imagens.                             *)
(***************************************************************************)
Respostas == {"s", "n", "t"}

\* the numbering answer taken whatever the cover answer was
OpcoesDeSemprePerguntando(r_deletar, r_ocultar, r_numeracao) ==
  [deletar_sem_destaque |-> (r_deletar = "s"),
   modo_duplo |-> (r_ocultar = "t"),
   ocultar_palavras |-> IF r_ocultar = "t" THEN FALSE ELSE (r_ocultar = "s"),
   numerar_palavras |-> (r_numeracao = "s")]

\* the options built from the three answers typed by the user
OpcoesDe(r_deletar, r_ocultar, r_numeracao) ==
  [deletar_sem_destaque |-> (r_deletar = "s"),
   modo_duplo |-> (r_ocultar = "t"),
   ocultar_palavras |-> IF r_ocultar = "t" THEN FALSE ELSE (r_ocultar = "s"),
   numerar_palavras |-> IF r_ocultar = "s" \/ r_ocultar = "t" THEN (r_numeracao = "s")
                        ELSE FALSE]

OpcoesPossiveis == {OpcoesDe(a, b, c) : a \in Respostas, b \in Respostas, c \in Respostas}

\* the images of a batch folder, by what OCR returns for them: no entry or one
\* entry of Linhas, with a full text that agrees with it or is empty
ImagensLote == ResultadosOCR(1)

\* criar_pasta_destino keeps a destination folder that already exists: it may
\* hold the output an earlier run wrote for the first image
ArquivosAntigos(o) ==
  { {},
    {[pasta |-> IF o.modo_duplo THEN "Prova" ELSE "Destacado", nome |-> 1,
      conteudo |-> <<>>]} }

\* a call of detectar_e_destacar_palavras is made
Chamar(img, pasta, ocultar, numerar, res) ==
  /\ pc' = "inicio"
  /\ imagem_path' = img
  /\ caminho_destino' = pasta
  /\ ocultar_palavras' = ocultar
  /\ numerar_palavras' = numerar
  /\ ocr' = res
  /\ texto_encontrado' = FALSE
  /\ coordenadas_palavras' = <<>>
  /\ fi' = 0
  /\ palavras_encontradas' = 0
  /\ destaques' = <<>>
  /\ desenho' = <<>>
  /\ regioes' = <<>>
  /\ erro' = "nenhum"
  /\ retorno' = SemRetorno
  /\ UNCHANGED palavras_chave

\* the call has returned and its locals are gone
Retornar ==
  /\ pc' = "ocioso"
  /\ texto_encontrado' = FALSE
  /\ coordenadas_palavras' = <<>>
  /\ fi' = 0
  /\ palavras_encontradas' = 0
  /\ destaques' = <<>>
  /\ desenho' = <<>>
  /\ regioes' = <<>>
  /\ erro' = "nenhum"
  /\ retorno' = SemRetorno
  /\ UNCHANGED <<imagem_path, caminho_destino, palavras_chave, ocultar_palavras,
                 numerar_palavras, ocr>>

\* the checks before the loop: no key phrase or no image ends the function
IniciarLote ==
  /\ bpc = "inicio"
  /\ IF palavras_chave = <<>> \/ imagens = 0
     THEN bpc' = "abortado" /\ UNCHANGED atual
     ELSE bpc' = "laco" /\ atual' = 1
  /\ UNCHANGED <<core_vars, opcoes, imagens, conteudo, gabarito, imagens_processadas,
                 imagens_com_erro, imagens_sem_palavras, imagens_deletadas,
                 total_palavras_destacadas, tentativas, resultados, outros_vars>>

\* "for imagem_path in imagens": the next image and the first call for it
ProximaImagem ==
  /\ bpc = "laco"
  /\ atual <= imagens
  /\ \E res \in ImagensLote :
       /\ conteudo' = res
       /\ IF opcoes.modo_duplo
          THEN /\ Chamar(atual, "Gabarito", FALSE, FALSE, res)
               /\ bpc' = "gabarito"
          ELSE /\ Chamar(atual, "Destacado", opcoes.ocultar_palavras,
                         opcoes.ocultar_palavras /\ opcoes.numerar_palavras, res)
               /\ bpc' = "normal"
  /\ tentativas' = Append(tentativas, atual)
  /\ UNCHANGED <<arquivos, opcoes, imagens, atual, gabarito, imagens_processadas,
                 imagens_com_erro, imagens_sem_palavras, imagens_deletadas,
                 total_palavras_destacadas, resultados, outros_vars>>

\* dual mode: the Gabarito call has returned, the Prova call is made
ChamarProva ==
  /\ bpc = "gabarito"
  /\ pc = "retorno"
  /\ gabarito' = retorno
  /\ Chamar(atual, "Prova", TRUE, opcoes.numerar_palavras, conteudo)
  /\ bpc' = "prova"
  /\ UNCHANGED <<arquivos, opcoes, imagens, atual, conteudo, imagens_processadas,
                 imagens_com_erro, imagens_sem_palavras, imagens_deletadas,
                 total_palavras_destacadas, tentativas, resultados, outros_vars>>

\* sucesso, palavras_destacadas, encontrou_palavras of the current image
ResultadoDaImagem ==
  IF opcoes.modo_duplo
  THEN <<gabarito[1] /\ retorno[1], gabarito[2], gabarito[3]>>
  ELSE retorno

\* the output files the deletion step looks for
SaidasDaImagem ==
  {f \in arquivos :
     /\ f.nome = atual
     /\ f.pasta \in (IF opcoes.modo_duplo THEN {"Gabarito", "Prova"} ELSE {"Destacado"})}

\* the deletion step run for the images that failed, not for those without a phrase
DeveDeletarSemSucesso(res) == opcoes.deletar_sem_destaque /\ ~res[1]

\* whether the deletion step runs, and whether it counts the image as deleted
DeveDeletar(res) == opcoes.deletar_sem_destaque /\ ~res[3]

ContaDeletada(res) ==
  DeveDeletar(res) /\ (opcoes.modo_duplo \/ SaidasDaImagem # {})

\* a failed image ends the loop
DepoisDaImagemAbortando(res) == IF res[1] THEN "laco" ELSE "relatorio"

\* where the loop goes after an image
DepoisDaImagem(res) == "laco"

\* the rest of the loop body after the last call: deletion and the counters
ConcluirImagem ==
  /\ bpc \in {"prova", "normal"}
  /\ pc = "retorno"
  /\ LET res == ResultadoDaImagem
     IN  /\ arquivos' = IF DeveDeletar(res) THEN arquivos \ SaidasDaImagem ELSE arquivos
         /\ imagens_deletadas' = imagens_deletadas + (IF ContaDeletada(res) THEN 1 ELSE 0)
         /\ imagens_processadas' = imagens_processadas + (IF res[1] THEN 1 ELSE 0)
         /\ total_palavras_destacadas' =
              total_palavras_destacadas + (IF res[1] THEN res[2] ELSE 0)
         /\ imagens_sem_palavras' =
              imagens_sem_palavras + (IF res[1] /\ ~res[3] THEN 1 ELSE 0)
         /\ imagens_com_erro' = imagens_com_erro + (IF res[1] THEN 0 ELSE 1)
         /\ resultados' = Append(resultados, res)
         /\ bpc' = DepoisDaImagem(res)
  /\ Retornar
  /\ atual' = atual + 1
  /\ gabarito' = SemRetorno
  /\ UNCHANGED <<opcoes, imagens, conteudo, tentativas, outros_vars>>

\* the loop is over: the final report
Relatorio ==
  /\ bpc = "laco"
  /\ atual > imagens
  /\ bpc' = "relatorio"
  /\ UNCHANGED <<core_vars, opcoes, imagens, atual, conteudo, gabarito,
                 imagens_processadas, imagens_com_erro, imagens_sem_palavras,
                 imagens_deletadas, total_palavras_destacadas, tentativas, resultados,
                 outros_vars>>

(***************************************************************************)
(* obter_intervalo_paginas (src/Imagens-PDF.py).                           *)
(***************************************************************************)
MaxLinha == 3        \* characters of a line typed at the prompt
MaxPaginas == 2      \* pages of the PDF
MaxPerguntas == 2    \* lines read by one call

\* the characters a typed line is made of
Caracteres == {"0", "1", "2", "-", " ", "x"}

\* input(...).strip() of every line that can be typed
LinhasDigitadas == {Strip(l) : l \in SeqsAte(Caracteres, MaxLinha)}

EhDigito(c) == c \in {"0", "1", "2", "3", "4", "5", "6", "7", "8", "9"}

ValorDoDigito(c) == CHOOSE d \in 0..9 : Digito(d) = c

RECURSIVE ValorDecimal(_)
ValorDecimal(s) ==
  IF s = <<>> THEN 0
  ELSE 10 * ValorDecimal(SubSeq(s, 1, Len(s) - 1)) + ValorDoDigito(s[Len(s)])

\* int(s) raises ValueError unless s, stripped, is a non-empty run of digits
IntValido(s) == Strip(s) # <<>> /\ \A i \in 1..Len(Strip(s)) : EhDigito(Strip(s)[i])

\* int(s)
IntDe(s) == ValorDecimal(Strip(s))

RECURSIVE SplitPor(_, _)
\* s.split(sep): the pieces between the separators, empty ones included
SplitPor(s, sep) ==
  LET pos == {i \in 1..Len(s) : s[i] = sep}
  IN  IF pos = {} THEN <<s>>
      ELSE <<SubSeq(s, 1, Min(pos) - 1)>> \o SplitPor(SubSeq(s, Min(pos) + 1, Len(s)), sep)

\* "inicio, fim = map(int, intervalo.split('-'))" raises ValueError
ConversaoFalha(linha) ==
  LET partes == SplitPor(linha, "-")
  IN  Len(partes) # 2 \/ \E i \in 1..Len(partes) : ~IntValido(partes[i])

\* the test with "inicio > fim" left out
ForaDosLimitesSemOrdem(inicio, fim, total) == inicio < 1 \/ fim > total

\* inicio < 1 or fim > total_paginas or inicio > fim
ForaDosLimites(inicio, fim, total) == inicio < 1 \/ fim > total \/ inicio > fim

\* input(...).strip()
LerIntervalo ==
  /\ ipc = "pergunta"
  /\ perguntas < MaxPerguntas
  /\ intervalo' \in LinhasDigitadas
  /\ perguntas' = perguntas + 1
  /\ ipc' = "linha"
  /\ UNCHANGED <<total_paginas, mensagem, retorno_intervalo>>
  /\ UNCHANGED <<imagens_vars, pdfs_vars, extrair_vars, cobrir_vars, dividir_vars>>

\* "if '-' not in intervalo": message and a new prompt
FormatoInvalido ==
  /\ ipc = "linha"
  /\ ~In(<<"-">>, intervalo)
  /\ mensagem' = "formato"
  /\ ipc' = "pergunta"
  /\ UNCHANGED <<total_paginas, intervalo, perguntas, retorno_intervalo>>
  /\ UNCHANGED <<imagens_vars, pdfs_vars, extrair_vars, cobrir_vars, dividir_vars>>

\* the conversion raises ValueError: the except clause prints and the loop goes on
NumerosInvalidos ==
  /\ ipc = "linha"
  /\ In(<<"-">>, intervalo)
  /\ ConversaoFalha(intervalo)
  /\ mensagem' = "numeros"
  /\ ipc' = "pergunta"
  /\ UNCHANGED <<total_paginas, intervalo, perguntas, retorno_intervalo>>
  /\ UNCHANGED <<imagens_vars, pdfs_vars, extrair_vars, cobrir_vars, dividir_vars>>

\* the bounds are refused: message and a new prompt
LimitesInvalidos ==
  /\ ipc = "linha"
  /\ In(<<"-">>, intervalo)
  /\ ~ConversaoFalha(intervalo)
  /\ LET partes == SplitPor(intervalo, "-")
     IN  ForaDosLimites(IntDe(partes[1]), IntDe(partes[2]), total_paginas)
  /\ mensagem' = "limites"
  /\ ipc' = "pergunta"
  /\ UNCHANGED <<total_paginas, intervalo, perguntas, retorno_intervalo>>
  /\ UNCHANGED <<imagens_vars, pdfs_vars, extrair_vars, cobrir_vars, dividir_vars>>

\* return inicio, fim
RetornarIntervalo ==
  /\ ipc = "linha"
  /\ In(<<"-">>, intervalo)
  /\ ~ConversaoFalha(intervalo)
  /\ LET partes == SplitPor(intervalo, "-")
     IN  /\ ~ForaDosLimites(IntDe(partes[1]), IntDe(partes[2]), total_paginas)
         /\ retorno_intervalo' = <<IntDe(partes[1]), IntDe(partes[2])>>
  /\ ipc' = "retornou"
  /\ UNCHANGED <<total_paginas, intervalo, mensagem, perguntas>>
  /\ UNCHANGED <<imagens_vars, pdfs_vars, extrair_vars, cobrir_vars, dividir_vars>>

(***************************************************************************)
(* criar_pdfs_individuais (src/Imagens-PDF.py).                            *)
(***************************************************************************)
MaxImagensPdf == 3   \* images in the list

\* image paths of one folder: base name and extension
CaminhosDeImagem == [nome : {"a", "b"}, ext : {"jpg", "png"}]

\* the lists of distinct paths
ListasDeImagens ==
  {l \in SeqsAte(CaminhosDeImagem, MaxImagensPdf) :
     \A i, j \in 1..Len(l) : i # j => l[i] # l[j]}

\* os.path.splitext(os.path.basename(img_path))[0] + ".pdf"
NomeDoPdf(caminho) == <<caminho.nome, "pdf">>

\* "if not os.path.exists(pasta_saida): os.makedirs(pasta_saida)" goes through
CriarPastaSaida ==
  /\ ppc = "inicio"
  /\ ppc' = "laco"
  /\ indice' = 1
  /\ sucessos' = 0
  /\ falhas' = 0
  /\ UNCHANGED <<lista_imagens, pdfs, retorno_pdfs>>
  /\ UNCHANGED <<imagens_vars, intervalo_vars, extrair_vars, cobrir_vars, dividir_vars>>

\* os.makedirs raises: return False
FalhaAoCriarPasta ==
  /\ ppc = "inicio"
  /\ ppc' = "fim"
  /\ retorno_pdfs' = <<FALSE>>
  /\ UNCHANGED <<lista_imagens, indice, pdfs, sucessos, falhas>>
  /\ UNCHANGED <<imagens_vars, intervalo_vars, extrair_vars, cobrir_vars, dividir_vars>>

\* one pass of the loop: the PDF of the image is drawn and saved
CriarPdf ==
  /\ ppc = "laco"
  /\ indice <= Len(lista_imagens)
  /\ pdfs' = pdfs \cup {NomeDoPdf(lista_imagens[indice])}
  /\ sucessos' = sucessos + 1
  /\ indice' = indice + 1
  /\ UNCHANGED <<ppc, lista_imagens, falhas, retorno_pdfs>>
  /\ UNCHANGED <<imagens_vars, intervalo_vars, extrair_vars, cobrir_vars, dividir_vars>>

\* one pass of the loop: Image.open, drawImage or save raises
FalhaAoCriarPdf ==
  /\ ppc = "laco"
  /\ indice <= Len(lista_imagens)
  /\ falhas' = falhas + 1
  /\ indice' = indice + 1
  /\ UNCHANGED <<ppc, lista_imagens, pdfs, sucessos, retorno_pdfs>>
  /\ UNCHANGED <<imagens_vars, intervalo_vars, extrair_vars, cobrir_vars, dividir_vars>>

\* after the loop: True when nothing failed
ConcluirPdfs ==
  /\ ppc = "laco"
  /\ indice > Len(lista_imagens)
  /\ retorno_pdfs' = <<falhas = 0>>
  /\ ppc' = "fim"
  /\ UNCHANGED <<lista_imagens, indice, pdfs, sucessos, falhas>>
  /\ UNCHANGED <<imagens_vars, intervalo_vars, extrair_vars, cobrir_vars, dividir_vars>>

(***************************************************************************)
(* extract_images_from_pdf and extrair_imagens_pdf_anatomia (src/1.py).    *)
(***************************************************************************)
MaxPaginasPdf == 2   \* pages of the PDF
MaxPorPagina == 2    \* images (or contours kept) on one page

Extratores == {"embutidas", "anatomia"}

\* fitz.open goes through; the counter starts at 0
AbrirDocumento ==
  /\ epc = "inicio"
  /\ epc' = "pagina"
  /\ pagina' = 1
  /\ item' = 1
  /\ contador' = 0
  /\ documento' = "aberto"
  /\ UNCHANGED <<extrator, paginas, salvos, relatado>>
  /\ UNCHANGED erros_de_pagina
  /\ UNCHANGED <<imagens_vars, intervalo_vars, pdfs_vars, cobrir_vars, dividir_vars>>

\* fitz.open raises: extract_images_from_pdf lets it out, the other one prints
\* and returns; neither reports a count
FalhaAoAbrirDocumento ==
  /\ epc = "inicio"
  /\ epc' = "abortado"
  /\ UNCHANGED <<extrator, paginas, pagina, item, contador, salvos, relatado, documento>>
  /\ UNCHANGED erros_de_pagina
  /\ UNCHANGED <<imagens_vars, intervalo_vars, pdfs_vars, cobrir_vars, dividir_vars>>

\* the images of the page are done: on to the next page
ProximaPagina ==
  /\ epc = "pagina"
  /\ pagina <= Len(paginas)
  /\ item > paginas[pagina]
  /\ pagina' = pagina + 1
  /\ item' = 1
  /\ UNCHANGED <<epc, extrator, paginas, contador, salvos, relatado, documento>>
  /\ UNCHANGED erros_de_pagina
  /\ UNCHANGED <<imagens_vars, intervalo_vars, pdfs_vars, cobrir_vars, dividir_vars>>

\* img_count += 1 (contador_imagens += 1) and the save under that number
SalvarImagemExtraida ==
  /\ epc = "pagina"
  /\ pagina <= Len(paginas)
  /\ item <= paginas[pagina]
  /\ contador' = contador + 1
  /\ salvos' = Append(salvos, contador')
  /\ item' = item + 1
  /\ UNCHANGED <<epc, extrator, paginas, pagina, relatado, documento>>
  /\ UNCHANGED erros_de_pagina
  /\ UNCHANGED <<imagens_vars, intervalo_vars, pdfs_vars, cobrir_vars, dividir_vars>>

\* extract_images_from_pdf: an exception (extract_image before the counter is
\* incremented, Image.open or save after it) leaves the function
FalhaAoExtrair ==
  /\ epc = "pagina"
  /\ extrator = "embutidas"
  /\ pagina <= Len(paginas)
  /\ item <= paginas[pagina]
  /\ \E incrementou \in BOOLEAN :
       contador' = contador + (IF incrementou THEN 1 ELSE 0)
  /\ epc' = "abortado"
  /\ UNCHANGED <<extrator, paginas, pagina, item, salvos, relatado, documento>>
  /\ UNCHANGED erros_de_pagina
  /\ UNCHANGED <<imagens_vars, intervalo_vars, pdfs_vars, cobrir_vars, dividir_vars>>

\* the page loop with no except clause: the exception leaves the function
FalhaNaPaginaAbortando ==
  /\ epc = "pagina"
  /\ extrator = "anatomia"
  /\ pagina <= Len(paginas)
  /\ epc' = "abortado"
  /\ UNCHANGED <<extrator, paginas, pagina, item, contador, salvos, relatado, documento,
                 erros_de_pagina>>
  /\ UNCHANGED <<imagens_vars, intervalo_vars, pdfs_vars, cobrir_vars, dividir_vars>>

\* extrair_imagens_pdf_anatomia: an exception before the counter is incremented
\* (rendering the page, finding or cropping a contour): the except clause of the
\* page prints and the loop continues with the next page
FalhaNaPagina ==
  /\ epc = "pagina"
  /\ extrator = "anatomia"
  /\ pagina <= Len(paginas)
  /\ pagina' = pagina + 1
  /\ item' = 1
  /\ UNCHANGED <<epc, extrator, paginas, contador, salvos, relatado, documento>>
  /\ erros_de_pagina' = Append(erros_de_pagina, pagina)
  /\ UNCHANGED <<imagens_vars, intervalo_vars, pdfs_vars, cobrir_vars, dividir_vars>>

\* extrair_imagens_pdf_anatomia: imagem_pil.save raises after
\* "contador_imagens += 1"; the except clause of the page prints and the loop
\* continues with the next page
FalhaAoSalvarRecorte ==
  /\ epc = "pagina"
  /\ extrator = "anatomia"
  /\ pagina <= Len(paginas)
  /\ item <= paginas[pagina]
  /\ contador' = contador + 1
  /\ pagina' = pagina + 1
  /\ item' = 1
  /\ UNCHANGED <<epc, extrator, paginas, salvos, relatado, documento>>
  /\ erros_de_pagina' = Append(erros_de_pagina, pagina)
  /\ UNCHANGED <<imagens_vars, intervalo_vars, pdfs_vars, cobrir_vars, dividir_vars>>

\* after the last page: documento.close() (extrair_imagens_pdf_anatomia only)
\* and the count is printed
RelatarExtracao ==
  /\ epc = "pagina"
  /\ pagina > Len(paginas)
  /\ relatado' = <<contador>>
  /\ documento' = IF extrator = "anatomia" THEN "fechado" ELSE documento
  /\ epc' = "relatado"
  /\ UNCHANGED <<extrator, paginas, pagina, item, contador, salvos>>
  /\ UNCHANGED erros_de_pagina
  /\ UNCHANGED <<imagens_vars, intervalo_vars, pdfs_vars, cobrir_vars, dividir_vars>>

(***************************************************************************)
(* The erase-all-text script: detectar_e_cobrir_texto and its              *)
(* processar_imagens (src/1.py:115-195).                                   *)
(***************************************************************************)
\* what image_to_data can hold besides the word entries: a word of confidence
\* 0 and a block entry (confidence -1, no text, the whole page)
LinhasDeBloco ==
  Linhas \cup
  { [text |-> <<"a">>, conf |-> 0,  left |-> 4, top |-> 4, width |-> 6,  height |-> 4],
    [text |-> <<>>,    conf |-> -1, left |-> 0, top |-> 0, width |-> 20, height |-> 8] }

\* the test with the text left out
CobreEntradaSemTexto(d) == d.conf > 0

\* dados['conf'][i] > 0 and dados['text'][i].strip()
CobreEntrada(d) == d.conf > 0 /\ Strip(d.text) # <<>>

\* desenho.rectangle([x, y, x + largura, y + altura], fill=(255, 255, 255))
RetanguloBranco(d) ==
  [tipo |-> "fill", x0 |-> d.left, y0 |-> d.top, x1 |-> d.left + d.width,
   y1 |-> d.top + d.height, txt |-> <<>>]

\* the draw calls of "for i in range(len(dados['text']))"
Coberturas(ds) ==
  LET cobertos == SelectSeq(ds, CobreEntrada)
  IN  [i \in 1..Len(cobertos) |-> RetanguloBranco(cobertos[i])]

\* nothing of a call of detectar_e_cobrir_texto is left
SemChamadaDeCobrir ==
  /\ dados_ocr' = <<>>
  /\ rabisco' = <<>>
  /\ total_blocos_cobertos' = 0
  /\ saida' = <<>>
  /\ retorno_cobrir' = SemRetorno

\* processar_imagens: the checks before the loop; no image ends the function
IniciarCobertura ==
  /\ cpc = "inicio"
  /\ IF n_imagens = 0
     THEN cpc' = "abortado" /\ UNCHANGED imagem
     ELSE cpc' = "laco" /\ imagem' = 1
  /\ UNCHANGED <<n_imagens, dados_ocr, rabisco, total_blocos_cobertos, saida, retorno_cobrir,
                 processadas, com_erro, total_blocos_texto, blocos>>
  /\ UNCHANGED <<imagens_vars, intervalo_vars, pdfs_vars, extrair_vars, dividir_vars>>

\* the call for the next image: Image.open, the conversion to RGB and
\* image_to_data go through
AbrirParaCobrir ==
  /\ cpc = "laco"
  /\ imagem <= n_imagens
  /\ dados_ocr' \in SeqsAte(LinhasDeBloco, MaxBoxes)
  /\ rabisco' = <<>>
  /\ total_blocos_cobertos' = 0
  /\ cpc' = "blocos"
  /\ UNCHANGED <<n_imagens, imagem, saida, retorno_cobrir, processadas, com_erro,
                 total_blocos_texto, blocos>>
  /\ UNCHANGED <<imagens_vars, intervalo_vars, pdfs_vars, extrair_vars, dividir_vars>>

\* the call for the next image: Image.open or image_to_data raises
FalhaAoAbrirParaCobrir ==
  /\ cpc = "laco"
  /\ imagem <= n_imagens
  /\ retorno_cobrir' = <<FALSE, 0>>
  /\ cpc' = "retorno"
  /\ UNCHANGED <<n_imagens, imagem, dados_ocr, rabisco, total_blocos_cobertos, saida,
                 processadas, com_erro, total_blocos_texto, blocos>>
  /\ UNCHANGED <<imagens_vars, intervalo_vars, pdfs_vars, extrair_vars, dividir_vars>>

\* the loop over the OCR entries
CobrirBlocos ==
  /\ cpc = "blocos"
  /\ rabisco' = Coberturas(dados_ocr)
  /\ total_blocos_cobertos' = Len(SelectSeq(dados_ocr, CobreEntrada))
  /\ cpc' = "salvar"
  /\ UNCHANGED <<n_imagens, imagem, dados_ocr, saida, retorno_cobrir, processadas, com_erro,
                 total_blocos_texto, blocos>>
  /\ UNCHANGED <<imagens_vars, intervalo_vars, pdfs_vars, extrair_vars, dividir_vars>>

\* imagem.save and "return True, total_blocos_cobertos"
SalvarCoberta ==
  /\ cpc = "salvar"
  /\ saida' = <<rabisco>>
  /\ retorno_cobrir' = <<TRUE, total_blocos_cobertos>>
  /\ cpc' = "retorno"
  /\ UNCHANGED <<n_imagens, imagem, dados_ocr, rabisco, total_blocos_cobertos, processadas,
                 com_erro, total_blocos_texto, blocos>>
  /\ UNCHANGED <<imagens_vars, intervalo_vars, pdfs_vars, extrair_vars, dividir_vars>>

\* imagem.save raises: "return False, 0"
FalhaAoSalvarCoberta ==
  /\ cpc = "salvar"
  /\ retorno_cobrir' = <<FALSE, 0>>
  /\ cpc' = "retorno"
  /\ UNCHANGED <<n_imagens, imagem, dados_ocr, rabisco, total_blocos_cobertos, saida,
                 processadas, com_erro, total_blocos_texto, blocos>>
  /\ UNCHANGED <<imagens_vars, intervalo_vars, pdfs_vars, extrair_vars, dividir_vars>>

\* processar_imagens: "if sucesso: ... else: ..." and on to the next image
ContarImagem ==
  /\ cpc = "retorno"
  /\ IF retorno_cobrir[1]
     THEN /\ processadas' = processadas + 1
          /\ total_blocos_texto' = total_blocos_texto + retorno_cobrir[2]
          /\ blocos' = Append(blocos, retorno_cobrir[2])
          /\ UNCHANGED com_erro
     ELSE /\ com_erro' = com_erro + 1
          /\ UNCHANGED <<processadas, total_blocos_texto, blocos>>
  /\ SemChamadaDeCobrir
  /\ imagem' = imagem + 1
  /\ cpc' = "laco"
  /\ UNCHANGED n_imagens
  /\ UNCHANGED <<imagens_vars, intervalo_vars, pdfs_vars, extrair_vars, dividir_vars>>

\* processar_imagens: the final report
RelatorioDeCobertura ==
  /\ cpc = "laco"
  /\ imagem > n_imagens
  /\ cpc' = "relatorio"
  /\ UNCHANGED <<n_imagens, imagem, dados_ocr, rabisco, total_blocos_cobertos, saida,
                 retorno_cobrir, processadas, com_erro, total_blocos_texto, blocos>>
  /\ UNCHANGED <<imagens_vars, intervalo_vars, pdfs_vars, extrair_vars, dividir_vars>>

(***************************************************************************)
(* extrair_paginas_pdf (src/Imagens-PDF.py).                               *)
(***************************************************************************)
MaxPaginasFonte == 3   \* pages of the source PDF
MaxIntervalos == 2     \* intervals entered

\* the pairs obter_intervalo_paginas can return for a PDF of total pages
IntervalosValidos(total) ==
  {par \in (1..total) \X (1..total) : par[1] <= par[2]}

\* range(a, b), in order
Range(a, b) == [i \in 1..(IF b > a THEN b - a ELSE 0) |-> a + i - 1]

\* the loop from inicio instead of inicio - 1
PaginasDoIntervaloDesdeInicio(inicio, fim) ==
  LET indices == Range(inicio, fim)
  IN  [i \in 1..Len(indices) |-> indices[i] + 1]

\* "for i in range(inicio-1, fim): add_page(pdf_reader.pages[i])": the pages
\* added, by their 1-based number (pages[i] is page i + 1)
PaginasDoIntervalo(inicio, fim) ==
  LET indices == Range(inicio - 1, fim)
  IN  [i \in 1..Len(indices) |-> indices[i] + 1]

\* f"combinado-{nome_arquivo}"
NomeCombinado == <<"combinado">>

\* f"{inicio}-{fim}-{nome_arquivo}"
NomeDoIntervalo(inicio, fim) == <<Str(inicio), "-", Str(fim)>>

\* open(nome, 'wb') and pdf_writer.write: the file of that name now holds pags
Gravar(nome, pags) ==
  {f \in arquivos_saida : f.nome # nome} \cup {[nome |-> nome, paginas |-> pags]}

\* PdfReader(caminho_entrada) goes through
AbrirPdf ==
  /\ dpc = "inicio"
  /\ dpc' = IF combinar THEN "combinando" ELSE "separando"
  /\ proximo' = 1
  /\ pdf_writer' = <<>>
  /\ UNCHANGED <<paginas_do_pdf, intervalos, combinar, arquivos_saida, retorno_dividir>>
  /\ UNCHANGED <<imagens_vars, intervalo_vars, pdfs_vars, extrair_vars, cobrir_vars>>

\* PdfReader raises: the except clause returns False
FalhaAoAbrirPdf ==
  /\ dpc = "inicio"
  /\ dpc' = "fim"
  /\ retorno_dividir' = <<FALSE>>
  /\ UNCHANGED <<paginas_do_pdf, intervalos, combinar, proximo, pdf_writer,
                 arquivos_saida>>
  /\ UNCHANGED <<imagens_vars, intervalo_vars, pdfs_vars, extrair_vars, cobrir_vars>>

\* combinar: the pages of the next interval are added to the one writer
AdicionarIntervalo ==
  /\ dpc = "combinando"
  /\ proximo <= Len(intervalos)
  /\ pdf_writer' = pdf_writer \o
                     PaginasDoIntervalo(intervalos[proximo][1], intervalos[proximo][2])
  /\ proximo' = proximo + 1
  /\ UNCHANGED <<dpc, paginas_do_pdf, intervalos, combinar, arquivos_saida,
                 retorno_dividir>>
  /\ UNCHANGED <<imagens_vars, intervalo_vars, pdfs_vars, extrair_vars, cobrir_vars>>

\* combinar: the combined file is written, return True
SalvarCombinado ==
  /\ dpc = "combinando"
  /\ proximo > Len(intervalos)
  /\ arquivos_saida' = Gravar(NomeCombinado, pdf_writer)
  /\ retorno_dividir' = <<TRUE>>
  /\ dpc' = "fim"
  /\ UNCHANGED <<paginas_do_pdf, intervalos, combinar, proximo, pdf_writer>>
  /\ UNCHANGED <<imagens_vars, intervalo_vars, pdfs_vars, extrair_vars, cobrir_vars>>

\* not combinar: a writer of its own for the next interval, and its file
SalvarIntervalo ==
  /\ dpc = "separando"
  /\ proximo <= Len(intervalos)
  /\ LET inicio == intervalos[proximo][1]
         fim == intervalos[proximo][2]
     IN  /\ pdf_writer' = PaginasDoIntervalo(inicio, fim)
         /\ arquivos_saida' = Gravar(NomeDoIntervalo(inicio, fim), pdf_writer')
  /\ proximo' = proximo + 1
  /\ UNCHANGED <<dpc, paginas_do_pdf, intervalos, combinar, retorno_dividir>>
  /\ UNCHANGED <<imagens_vars, intervalo_vars, pdfs_vars, extrair_vars, cobrir_vars>>

\* open or write raises: the except clause returns False
FalhaAoGravar ==
  /\ \/ dpc = "combinando" /\ proximo > Len(intervalos)
     \/ dpc = "separando" /\ proximo <= Len(intervalos)
  /\ retorno_dividir' = <<FALSE>>
  /\ dpc' = "fim"
  /\ UNCHANGED <<paginas_do_pdf, intervalos, combinar, proximo, pdf_writer,
                 arquivos_saida>>
  /\ UNCHANGED <<imagens_vars, intervalo_vars, pdfs_vars, extrair_vars, cobrir_vars>>

\* not combinar: every interval has its file, return True
RetornarDivisao ==
  /\ dpc = "separando"
  /\ proximo > Len(intervalos)
  /\ retorno_dividir' = <<TRUE>>
  /\ dpc' = "fim"
  /\ UNCHANGED <<paginas_do_pdf, intervalos, combinar, proximo, pdf_writer,
                 arquivos_saida>>
  /\ UNCHANGED <<imagens_vars, intervalo_vars, pdfs_vars, extrair_vars, cobrir_vars>>

(***************************************************************************)
(* Specifications.                                                         *)
(***************************************************************************)
\* none of the PDF tools is running
IntervaloOcioso ==
  /\ ipc = "ocioso"
  /\ total_paginas = 0
  /\ intervalo = <<>>
  /\ mensagem = "nenhuma"
  /\ perguntas = 0
  /\ retorno_intervalo = SemRetorno

PdfsOcioso ==
  /\ ppc = "ocioso"
  /\ lista_imagens = <<>>
  /\ indice = 0
  /\ pdfs = {}
  /\ sucessos = 0
  /\ falhas = 0
  /\ retorno_pdfs = SemRetorno

ExtrairOcioso ==
  /\ epc = "ocioso"
  /\ extrator = "nenhum"
  /\ paginas = <<>>
  /\ pagina = 0
  /\ item = 0
  /\ contador = 0
  /\ salvos = <<>>
  /\ relatado = SemRetorno
  /\ documento = "nenhum"
  /\ erros_de_pagina = <<>>

CobrirOcioso ==
  /\ cpc = "ocioso"
  /\ n_imagens = 0
  /\ imagem = 0
  /\ dados_ocr = <<>>
  /\ rabisco = <<>>
  /\ total_blocos_cobertos = 0
  /\ saida = <<>>
  /\ retorno_cobrir = SemRetorno
  /\ processadas = 0
  /\ com_erro = 0
  /\ total_blocos_texto = 0
  /\ blocos = <<>>

DividirOcioso ==
  /\ dpc = "ocioso"
  /\ paginas_do_pdf = 0
  /\ intervalos = <<>>
  /\ combinar = FALSE
  /\ proximo = 0
  /\ pdf_writer = <<>>
  /\ arquivos_saida = {}
  /\ retorno_dividir = SemRetorno

ContadoresZerados ==
  /\ imagens_processadas = 0
  /\ imagens_com_erro = 0
  /\ imagens_sem_palavras = 0
  /\ imagens_deletadas = 0
  /\ total_palavras_destacadas = 0
  /\ tentativas = <<>>
  /\ resultados = <<>>
  /\ gabarito = SemRetorno

\* A direct call of detectar_e_destacar_palavras with any arguments.
Init ==
  /\ \E pcs \in SeqsAte(Frases, MaxFrases), ocultar \in BOOLEAN, numerar \in BOOLEAN,
        res \in ResultadosOCR(MaxBoxes) :
       /\ Chamada(1, "Destacado", pcs, ocultar, numerar, res)
       /\ conteudo = res
  /\ arquivos = {}
  /\ bpc = "direto"
  /\ opcoes = OpcoesDe("n", "n", "n")
  /\ imagens = 1
  /\ atual = 1
  /\ ContadoresZerados
  /\ IntervaloOcioso /\ PdfsOcioso /\ ExtrairOcioso /\ CobrirOcioso
  /\ DividirOcioso

Next ==
  \/ AbrirImagem
  \/ FalhaAoAbrir
  \/ DestacarFrase
  \/ Numerar
  \/ SalvarImagem
  \/ FalhaAoSalvar

Spec == Init /\ [][Next]_vars

\* A run of processar_imagens over a folder of up to MaxImagens images, with no
\* key phrase or one, and any options obter_opcoes_usuario can build.
InitLote ==
  /\ pc = "ocioso"
  /\ imagem_path = 0
  /\ caminho_destino = "nenhuma"
  /\ palavras_chave \in SeqsAte(Frases, 1)
  /\ ocultar_palavras = FALSE
  /\ numerar_palavras = FALSE
  /\ ocr = [texto_completo |-> <<>>, dados |-> <<>>]
  /\ conteudo = [texto_completo |-> <<>>, dados |-> <<>>]
  /\ texto_encontrado = FALSE
  /\ coordenadas_palavras = <<>>
  /\ fi = 0
  /\ palavras_encontradas = 0
  /\ destaques = <<>>
  /\ desenho = <<>>
  /\ regioes = <<>>
  /\ erro = "nenhum"
  /\ retorno = SemRetorno
  /\ bpc = "inicio"
  /\ opcoes \in OpcoesPossiveis
  /\ arquivos \in ArquivosAntigos(opcoes)
  /\ imagens \in 0..MaxImagens
  /\ atual = 0
  /\ ContadoresZerados
  /\ IntervaloOcioso /\ PdfsOcioso /\ ExtrairOcioso /\ CobrirOcioso
  /\ DividirOcioso

NextLote ==
  \/ IniciarLote
  \/ ProximaImagem
  \/ ChamarProva
  \/ ConcluirImagem
  \/ Relatorio
  \/ AbrirImagem
  \/ FalhaAoAbrir
  \/ DestacarFrase
  \/ Numerar
  \/ SalvarImagem
  \/ FalhaAoSalvar

SpecLote == InitLote /\ [][NextLote]_vars

\* the image highlighting script is not running
ImagensOcioso ==
  /\ pc = "ocioso"
  /\ imagem_path = 0
  /\ caminho_destino = "nenhuma"
  /\ palavras_chave = <<>>
  /\ ocultar_palavras = FALSE
  /\ numerar_palavras = FALSE
  /\ ocr = [texto_completo |-> <<>>, dados |-> <<>>]
  /\ conteudo = [texto_completo |-> <<>>, dados |-> <<>>]
  /\ texto_encontrado = FALSE
  /\ coordenadas_palavras = <<>>
  /\ fi = 0
  /\ palavras_encontradas = 0
  /\ destaques = <<>>
  /\ desenho = <<>>
  /\ regioes = <<>>
  /\ erro = "nenhum"
  /\ retorno = SemRetorno
  /\ arquivos = {}
  /\ bpc = "ocioso"
  /\ opcoes = OpcoesDe("n", "n", "n")
  /\ imagens = 0
  /\ atual = 0
  /\ ContadoresZerados

\* A call of obter_intervalo_paginas for a PDF of up to MaxPaginas pages.
InitIntervalo ==
  /\ ipc = "pergunta"
  /\ total_paginas \in 0..MaxPaginas
  /\ intervalo = <<>>
  /\ mensagem = "nenhuma"
  /\ perguntas = 0
  /\ retorno_intervalo = SemRetorno
  /\ ImagensOcioso /\ PdfsOcioso /\ ExtrairOcioso /\ CobrirOcioso
  /\ DividirOcioso

NextIntervalo ==
  \/ LerIntervalo
  \/ FormatoInvalido
  \/ NumerosInvalidos
  \/ LimitesInvalidos
  \/ RetornarIntervalo

SpecIntervalo == InitIntervalo /\ [][NextIntervalo]_vars

\* A call of criar_pdfs_individuais with a list of distinct image paths.
InitPdfs ==
  /\ ppc = "inicio"
  /\ lista_imagens \in ListasDeImagens
  /\ indice = 0
  /\ pdfs = {}
  /\ sucessos = 0
  /\ falhas = 0
  /\ retorno_pdfs = SemRetorno
  /\ ImagensOcioso /\ IntervaloOcioso /\ ExtrairOcioso /\ CobrirOcioso
  /\ DividirOcioso

NextPdfs ==
  \/ CriarPastaSaida
  \/ FalhaAoCriarPasta
  \/ CriarPdf
  \/ FalhaAoCriarPdf
  \/ ConcluirPdfs

SpecPdfs == InitPdfs /\ [][NextPdfs]_vars

\* A run of one of the two extractors over a PDF.
InitExtrair ==
  /\ epc = "inicio"
  /\ extrator \in Extratores
  /\ paginas \in SeqsAte(0..MaxPorPagina, MaxPaginasPdf)
  /\ pagina = 0
  /\ item = 0
  /\ contador = 0
  /\ salvos = <<>>
  /\ relatado = SemRetorno
  /\ documento = "nenhum"
  /\ erros_de_pagina = <<>>
  /\ ImagensOcioso /\ IntervaloOcioso /\ PdfsOcioso /\ CobrirOcioso
  /\ DividirOcioso

NextExtrair ==
  \/ AbrirDocumento
  \/ FalhaAoAbrirDocumento
  \/ ProximaPagina
  \/ SalvarImagemExtraida
  \/ FalhaAoExtrair
  \/ FalhaNaPagina
  \/ FalhaAoSalvarRecorte
  \/ RelatarExtracao

SpecExtrair == InitExtrair /\ [][NextExtrair]_vars

\* The same run, with the code going on as long as it has a next step.
SpecExtrairJusto == SpecExtrair /\ WF_vars(NextExtrair)

\* A run of the erase-all-text script over a folder of up to MaxImagens images.
InitCobrir ==
  /\ cpc = "inicio"
  /\ n_imagens \in 0..MaxImagens
  /\ imagem = 0
  /\ dados_ocr = <<>>
  /\ rabisco = <<>>
  /\ total_blocos_cobertos = 0
  /\ saida = <<>>
  /\ retorno_cobrir = SemRetorno
  /\ processadas = 0
  /\ com_erro = 0
  /\ total_blocos_texto = 0
  /\ blocos = <<>>
  /\ ImagensOcioso /\ IntervaloOcioso /\ PdfsOcioso /\ ExtrairOcioso
  /\ DividirOcioso

NextCobrir ==
  \/ IniciarCobertura
  \/ AbrirParaCobrir
  \/ FalhaAoAbrirParaCobrir
  \/ CobrirBlocos
  \/ SalvarCoberta
  \/ FalhaAoSalvarCoberta
  \/ ContarImagem
  \/ RelatorioDeCobertura

SpecCobrir == InitCobrir /\ [][NextCobrir]_vars

\* A call of extrair_paginas_pdf with intervals obter_intervalo_paginas returned
\* for the same PDF (at least one: main asks for one before it asks for more).
InitDividir ==
  /\ dpc = "inicio"
  /\ paginas_do_pdf \in 1..MaxPaginasFonte
  /\ intervalos \in SeqsAte(IntervalosValidos(paginas_do_pdf), MaxIntervalos)
  /\ intervalos # <<>>
  /\ combinar \in BOOLEAN
  /\ proximo = 0
  /\ pdf_writer = <<>>
  /\ arquivos_saida = {}
  /\ retorno_dividir = SemRetorno
  /\ ImagensOcioso /\ IntervaloOcioso /\ PdfsOcioso /\ ExtrairOcioso /\ CobrirOcioso

NextDividir ==
  \/ AbrirPdf
  \/ FalhaAoAbrirPdf
  \/ AdicionarIntervalo
  \/ SalvarCombinado
  \/ SalvarIntervalo
  \/ FalhaAoGravar
  \/ RetornarDivisao

SpecDividir == InitDividir /\ [][NextDividir]_vars

(***************************************************************************)
(* Properties.                                                             *)
(***************************************************************************)
\* number of key phrases whose loop iteration has run to its end
FrasesConcluidas ==
  IF pc = "frases" \/ erro \in {"ValueError", "IndexError"} THEN fi - 1 ELSE fi

\* the call has returned without an exception
Sucesso == pc = "retorno" /\ erro = "nenhum"

\* the regions highlighted for key phrase k, in the order they were highlighted
RegioesDaFrase(k) == SelectSeq(regioes, LAMBDA r : r.frase = k)

\* the covered regions, in the order they were highlighted
RegioesCobertas == SelectSeq(regioes, LAMBDA r : r.coberta)

\* the labels drawn, in the order they were drawn
RotulosDesenhados == SelectSeq(desenho, LAMBDA op : op.tipo = "text")

\* the image written by this call
ImagemSalva ==
  (CHOOSE f \in arquivos : f.pasta = caminho_destino /\ f.nome = imagem_path).conteudo

\* some key phrase, lower-cased, occurs in the lower-cased full text
AlgumaFraseNoTexto ==
  \E k \in 1..Len(palavras_chave) :
     In(Lower(palavras_chave[k]), Lower(ocr.texto_completo))

\* the box of word i (1-based) as a rectangle
CaixaDaPalavra(i) ==
  [xmin |-> coordenadas_palavras[i].x,
   ymin |-> coordenadas_palavras[i].y,
   xmax |-> coordenadas_palavras[i].x + coordenadas_palavras[i].largura,
   ymax |-> coordenadas_palavras[i].y + coordenadas_palavras[i].altura]

\* the pixels strictly inside a rectangle
Interior(c) ==
  {<<px, py>> \in ((c.xmin + 1)..(c.xmax - 1)) \X ((c.ymin + 1)..(c.ymax - 1)) : TRUE}

\* the pixels of the stroke of the outline drawn around a rectangle
Tracado(c) ==
  LET op == Contorno(c)
  IN  {<<px, py>> \in (Min({op.x0, op.x1})..Max({op.x0, op.x1}))
                        \X (Min({op.y0, op.y1})..Max({op.y0, op.y1})) :
         Pinta(op, px, py)}

\* C1: for every single-word key phrase whose scan has ended, the regions
\* highlighted for it are as many as the word boxes whose lower-cased text
\* contains the phrase, one per such box and with exactly that box's rectangle,
\* and every highlighted region is counted in palavras_encontradas.
C1_UmaRegiaoPorPalavra ==
  /\ palavras_encontradas = Len(regioes)
  /\ \A k \in 1..FrasesConcluidas :
       LET P == Lower(palavras_chave[k])
           regs == RegioesDaFrase(k)
           casam == {i \in 1..Len(coordenadas_palavras) :
                       In(P, Lower(coordenadas_palavras[i].texto))}
       IN  ~In(<<" ">>, P) =>
             /\ Len(regs) = Cardinality(casam)
             /\ {regs[q].i + 1 : q \in 1..Len(regs)} = casam
             /\ \A q \in 1..Len(regs) :
                  regs[q].k = 1 /\ regs[q].caixa = CaixaDaPalavra(regs[q].i + 1)

C1_Witness ==
  /\ Sucesso
  /\ \E k \in 1..Len(palavras_chave) :
       /\ ~In(<<" ">>, palavras_chave[k])
       /\ Len(RegioesDaFrase(k)) = 1
       /\ Len(coordenadas_palavras) = 2

\* C2: for every key phrase with a blank and k >= 1 tokens whose scan has ended,
\* a region starts at index i exactly when boxes i..i+k-1 all exist and token j is
\* a substring of the lower-cased text of box i+j; so none starts after
\* len - k, none at all when the phrase is longer than the sequence, and no
\* IndexError arises from such a phrase.
C2_JanelaDeFrase ==
  /\ \A f \in 1..FrasesConcluidas :
       LET P == Lower(palavras_chave[f])
           toks == Split(P)
           n == Len(coordenadas_palavras)
           regs == RegioesDaFrase(f)
           devem == {i \in 0..(n - 1) :
                       \A j \in 0..(Len(toks) - 1) :
                          /\ i + j <= n - 1
                          /\ In(toks[j + 1], Lower(coordenadas_palavras[i + j + 1].texto))}
       IN  (In(<<" ">>, P) /\ Len(toks) >= 1) =>
             /\ {regs[q].i : q \in 1..Len(regs)} = devem
             /\ Len(regs) = Cardinality(devem)
             /\ \A q \in 1..Len(regs) : regs[q].i <= n - Len(toks) /\ regs[q].k = Len(toks)
             /\ (Len(toks) > n => regs = <<>>)
  /\ (erro = "IndexError" => Split(Lower(palavras_chave[fi])) = <<>>)

C2_Witness ==
  /\ Sucesso
  /\ Len(coordenadas_palavras) = 2
  /\ \E f \in 1..Len(palavras_chave) :
       /\ Len(Split(palavras_chave[f])) = 2
       /\ Len(RegioesDaFrase(f)) = 1

\* C3: when no lower-cased key phrase occurs in the lower-cased full text, no
\* region is ever scanned or drawn, every return reports 0 occurrences and
\* "not found", and the return without an exception is (True, 0, False) with the
\* image saved undrawn, whatever the word boxes hold.
C3_GateSemOcorrencia ==
  (pc # "inicio" /\ ~AlgumaFraseNoTexto) =>
     /\ regioes = <<>> /\ desenho = <<>> /\ destaques = <<>>
     /\ pc \in {"salvar", "retorno"}
     /\ (pc = "retorno" => retorno[2] = 0 /\ retorno[3] = FALSE)
     /\ (Sucesso => retorno = <<TRUE, 0, FALSE>> /\ ImagemSalva = <<>>)

C3_Witness ==
  /\ Sucesso
  /\ ~AlgumaFraseNoTexto
  /\ retorno = <<TRUE, 0, FALSE>>
  /\ \E k \in 1..Len(palavras_chave) :
       Inicios(CoordenadasDe(ocr.dados), Lower(palavras_chave[k])) # <<>>

\* C4 as claimed: with cover set, in the saved image every pixel strictly inside
\* every covered region is white.
C4_InteriorBranco ==
  Sucesso =>
    \A q \in 1..Len(RegioesCobertas) :
       \A p \in Interior(RegioesCobertas[q].caixa) :
          CorDoPixel(ImagemSalva, p[1], p[2]) = Branco

\* C4 as amended: with cover set, in the saved image every pixel strictly inside
\* every covered region is white unless a digit label or the outline stroke of a
\* highlighted region was painted over it; none keeps its original content.
C4_InteriorApagado ==
  Sucesso =>
    \A q \in 1..Len(RegioesCobertas) :
       \A p \in Interior(RegioesCobertas[q].caixa) :
          \/ CorDoPixel(ImagemSalva, p[1], p[2]) = Branco
          \/ /\ CorDoPixel(ImagemSalva, p[1], p[2]) \in {Azul, Vermelho}
             /\ \E i \in 1..Len(ImagemSalva) :
                  /\ ImagemSalva[i].tipo \in {"text", "outline"}
                  /\ Pinta(ImagemSalva[i], p[1], p[2])

C4_Witness ==
  /\ Sucesso
  /\ ocultar_palavras
  /\ \E q \in 1..Len(RegioesCobertas) :
       /\ \E p \in Interior(RegioesCobertas[q].caixa) :
            CorDoPixel(ImagemSalva, p[1], p[2]) = Branco
       /\ \E p \in Interior(RegioesCobertas[q].caixa) :
            CorDoPixel(ImagemSalva, p[1], p[2]) = Azul

\* C5: in the saved image, every pixel of the outline stroke (2px outside the
\* bounds, 3px wide) of every highlighted region is red, also when another
\* highlighted region overlaps it and is covered later.  Stated for the calls
\* that draw no label.
C5_ContornoPresente ==
  (Sucesso /\ ~numerar_palavras) =>
    \A q \in 1..Len(regioes) :
       \A p \in Tracado(regioes[q].caixa) :
          CorDoPixel(ImagemSalva, p[1], p[2]) = Vermelho

\* C6: a label is drawn only for covered regions: none when ocultar_palavras is
\* false (even with numerar_palavras true) and none when numerar_palavras is false;
\* with both true, once numbering has run there is exactly one label per covered
\* region.
C6_NumeroSoEmCoberta ==
  /\ (~ocultar_palavras \/ ~numerar_palavras) => RotulosDesenhados = <<>>
  /\ Len(RotulosDesenhados) <= Len(RegioesCobertas)
  /\ (ocultar_palavras /\ numerar_palavras /\ pc \in {"salvar", "retorno"}
        /\ FrasesConcluidas = Len(palavras_chave) /\ texto_encontrado)
       => Len(RotulosDesenhados) = Len(RegioesCobertas)

C6_Witness ==
  /\ Sucesso
  /\ ~ocultar_palavras
  /\ numerar_palavras
  /\ regioes # <<>>
  /\ RotulosDesenhados = <<>>

\* C7: regions are highlighted in key-phrase order and, within a phrase, in
\* word-box order; the n-th label drawn reads str(n) and is placed from the n-th
\* covered region, so the labels are exactly 1..N.
C7_OrdemENumeracao ==
  /\ \A a, b \in 1..Len(regioes) :
       a < b => \/ regioes[a].frase < regioes[b].frase
                \/ (regioes[a].frase = regioes[b].frase /\ regioes[a].i < regioes[b].i)
  /\ \A n \in 1..Len(RotulosDesenhados) :
       /\ RotulosDesenhados[n].txt = Str(n)
       /\ n <= 9 => RotulosDesenhados[n].txt = <<Digito(n)>>
       /\ \E fonte \in BOOLEAN, metrica \in MetricasDeFonte, medido \in BOOLEAN :
            <<RotulosDesenhados[n].x0, RotulosDesenhados[n].y0>> =
              PosicaoDoNumero(DestaqueDe(RegioesCobertas[n].caixa), Str(n),
                              fonte, metrica, medido)
  /\ (Sucesso /\ numerar_palavras /\ ocultar_palavras) =>
       {RotulosDesenhados[n].txt : n \in 1..Len(RotulosDesenhados)} =
         {Str(n) : n \in 1..Len(RegioesCobertas)}

C7_Witness ==
  /\ Sucesso
  /\ Len(RotulosDesenhados) >= 3
  /\ regioes[1].frase # regioes[Len(regioes)].frase
  /\ regioes[1].caixa # regioes[2].caixa

\* C8: the region of a multi-word match over boxes i..i+k-1 has xmin = left of
\* box i, xmax = left + width of box i+k-1, ymin = the least top and ymax = the
\* greatest top + height over the k boxes.
C8_RetanguloDaFrase ==
  \A q \in 1..Len(regioes) :
     LET r == regioes[q]
         cs == coordenadas_palavras
         js == (r.i + 1)..(r.i + r.k)
     IN  In(<<" ">>, Lower(palavras_chave[r.frase])) =>
           /\ r.caixa.xmin = cs[r.i + 1].x
           /\ r.caixa.xmax = cs[r.i + r.k].x + cs[r.i + r.k].largura
           /\ \A j \in js : r.caixa.ymin <= cs[j].y
           /\ \E j \in js : r.caixa.ymin = cs[j].y
           /\ \A j \in js : r.caixa.ymax >= cs[j].y + cs[j].altura
           /\ \E j \in js : r.caixa.ymax = cs[j].y + cs[j].altura
           /\ desenho # <<>>
           /\ \E i \in 1..Len(desenho) : desenho[i] = Contorno(r.caixa)

C8_Witness ==
  /\ Sucesso
  /\ \E q \in 1..Len(regioes) :
       /\ regioes[q].k = 2
       /\ coordenadas_palavras[regioes[q].i + 1].y > coordenadas_palavras[regioes[q].i + 2].y
       /\ regioes[q].caixa.ymin = coordenadas_palavras[regioes[q].i + 2].y

\* C9 as claimed: the call returns "not found" only when no key phrase occurs in
\* the lower-cased full text; when the gate has found one, it returns "found".
C9_EncontrouSeNoTexto ==
  (pc = "retorno" /\ texto_encontrado) => retorno[3] = TRUE

\* C9 as amended: a return with success=true reports "found" exactly when some
\* key phrase occurs in the lower-cased full text; a return with success=false
\* reports "not found" and 0 occurrences whatever the text holds.
C9_EncontrouNoSucesso ==
  pc = "retorno" =>
    IF retorno[1] THEN retorno[3] = AlgumaFraseNoTexto
    ELSE retorno[3] = FALSE /\ retorno[2] = 0 /\ erro # "nenhum"

C9_Witness ==
  /\ Sucesso
  /\ AlgumaFraseNoTexto
  /\ retorno = <<TRUE, 0, TRUE>>

\* C10: an exception in one call makes it return (False, 0, False); the loop of
\* processar_imagens goes on: it takes every image once, in list order, counts
\* the failed ones as errors, and reaches the final report (in every state before
\* the report the step the program is at is enabled; for the phrase loop, whose
\* step is total, its index is within the list).
C10_FalhaNaoEncerraLote ==
  /\ (pc = "retorno" /\ erro # "nenhum") => retorno = <<FALSE, 0, FALSE>>
  /\ (pc = "retorno" /\ erro = "nenhum") => retorno[1] = TRUE
  /\ tentativas = [k \in 1..Len(tentativas) |-> k]
  /\ Len(tentativas) <= imagens
  /\ bpc = "relatorio" =>
       /\ tentativas = [k \in 1..imagens |-> k]
       /\ Len(resultados) = imagens
       /\ imagens_com_erro = Cardinality({k \in 1..imagens : ~resultados[k][1]})
       /\ imagens_processadas + imagens_com_erro = imagens
  /\ (bpc = "laco" /\ atual <= imagens) => ENABLED ProximaImagem
  /\ (bpc = "laco" /\ atual > imagens) => ENABLED Relatorio
  /\ (bpc = "gabarito" /\ pc = "retorno") => ENABLED ChamarProva
  /\ (bpc \in {"prova", "normal"} /\ pc = "retorno") => ENABLED ConcluirImagem
  /\ (bpc \in {"gabarito", "prova", "normal"} /\ pc # "retorno") =>
       /\ pc \in {"inicio", "frases", "numerar", "salvar"}
       /\ pc = "inicio" => ENABLED AbrirImagem
       /\ pc = "frases" => fi \in 1..Len(palavras_chave)
       /\ pc = "numerar" => ENABLED Numerar
       /\ pc = "salvar" => ENABLED SalvarImagem
  /\ bpc \in {"inicio", "laco", "gabarito", "prova", "normal", "relatorio", "abortado"}

C10_Witness ==
  /\ bpc = "relatorio"
  /\ imagens = 2
  /\ resultados[1] = <<FALSE, 0, FALSE>>
  /\ resultados[2][1] = TRUE

\* number of places at which the lower-cased phrase P matches the word boxes
OcorrenciasDe(P) ==
  LET n == Len(coordenadas_palavras)
      toks == Split(P)
  IN  IF In(<<" ">>, P)
      THEN Cardinality({i \in 0..(n - Len(toks)) :
                          \A j \in 1..Len(toks) :
                             /\ i + j <= n
                             /\ In(toks[j], Lower(coordenadas_palavras[i + j].texto))})
      ELSE Cardinality({i \in 1..n : In(P, Lower(coordenadas_palavras[i].texto))})

RECURSIVE SomaDasOcorrencias(_)
\* the matches of the first n entries of the key list, repeated entries included
SomaDasOcorrencias(n) ==
  IF n = 0 THEN 0
  ELSE SomaDasOcorrencias(n - 1) + OcorrenciasDe(Lower(palavras_chave[n]))

\* the draw calls of one kind made so far
ChamadasDeDesenho(tipo) == SelectSeq(desenho, LAMBDA op : op.tipo = tipo)

\* C11: matches are never deduplicated: the count returned after the scan is the
\* sum, over every entry of the key list (a repeated entry counted each time), of
\* that entry's number of matches; every match is a region of its own with an
\* outline call of its own and, with cover set, a cover call of its own, so a box
\* matched by two entries is outlined (and covered) twice.
C11_SemDeduplicacao ==
  /\ (Sucesso /\ texto_encontrado) =>
       /\ retorno[2] = SomaDasOcorrencias(Len(palavras_chave))
       /\ \A k \in 1..Len(palavras_chave) :
            Len(RegioesDaFrase(k)) = OcorrenciasDe(Lower(palavras_chave[k]))
  /\ Len(ChamadasDeDesenho("outline")) = Len(regioes)
  /\ Len(ChamadasDeDesenho("fill")) = (IF ocultar_palavras THEN Len(regioes) ELSE 0)
  /\ \A q \in 1..Len(regioes) :
       Cardinality({i \in 1..Len(desenho) : desenho[i] = Contorno(regioes[q].caixa)})
         = Cardinality({p \in 1..Len(regioes) : regioes[p].caixa = regioes[q].caixa})

C11_Witness ==
  /\ Sucesso
  /\ ocultar_palavras
  /\ retorno[2] = 2
  /\ Len(coordenadas_palavras) = 1
  /\ Len(regioes) = 2
  /\ regioes[1].frase # regioes[2].frase
  /\ regioes[1].caixa = regioes[2].caixa
  /\ Len(ChamadasDeDesenho("fill")) = 2

\* C12: once the gate has passed, the word boxes the scan uses are exactly the
\* OCR entries whose trimmed text is not empty and whose confidence is above 30,
\* in OCR order, each with its trimmed text and its own left, top, width and
\* height; an entry of confidence exactly 30 is dropped.
C12_CaixasFiltradas ==
  (pc # "inicio" /\ texto_encontrado) =>
    LET dados == ocr.dados
        ficam == {i \in 1..Len(dados) :
                    /\ dados[i].conf > 30
                    /\ \E c \in 1..Len(dados[i].text) : dados[i].text[c] # " "}
        ordem == Ordenado(ficam)
    IN  /\ Len(coordenadas_palavras) = Cardinality(ficam)
        /\ \A q \in 1..Len(coordenadas_palavras) :
             LET c == coordenadas_palavras[q]
                 d == dados[ordem[q]]
             IN  /\ c.texto # <<>>
                 /\ c.texto[1] # " " /\ c.texto[Len(c.texto)] # " "
                 /\ \E a \in 0..Len(d.text), b \in 0..Len(d.text) :
                      /\ d.text = [x \in 1..a |-> " "] \o c.texto \o [x \in 1..b |-> " "]
                 /\ c.x = d.left /\ c.y = d.top
                 /\ c.largura = d.width /\ c.altura = d.height
        /\ \A i \in 1..Len(dados) : dados[i].conf = 30 => i \notin ficam

C12_Witness ==
  /\ Sucesso
  /\ texto_encontrado
  /\ Len(ocr.dados) = 2
  /\ ocr.dados[1].conf = 30
  /\ Strip(ocr.dados[1].text) # <<>>
  /\ Len(coordenadas_palavras) = 1
  /\ coordenadas_palavras[1].texto # ocr.dados[2].text
  /\ coordenadas_palavras[1].x = ocr.dados[2].left

\* a rectangle lies within the image
DentroDaImagem(r) ==
  /\ 0 <= r.xmin /\ 0 <= r.ymin
  /\ r.xmax <= LarguraImagem /\ r.ymax <= AlturaImagem

\* the word boxes taking part in a highlighted region
CaixasDaRegiao(r) == {CaixaDaPalavra(j) : j \in (r.i + 1)..(r.i + r.k)}

\* C13 as claimed: the bounds of every highlighted region lie within the image,
\* whatever word boxes OCR supplies.
C13_RegiaoNaImagem ==
  \A q \in 1..Len(regioes) : DentroDaImagem(regioes[q].caixa)

\* C13 as amended: the bounds of a highlighted region lie within the image
\* whenever the word boxes taking part in the match do; nothing is clamped, so
\* the region of a single box that reaches beyond the image reaches beyond it too.
C13_RegiaoNasCaixas ==
  \A q \in 1..Len(regioes) :
     /\ (\A c \in CaixasDaRegiao(regioes[q]) : DentroDaImagem(c))
          => DentroDaImagem(regioes[q].caixa)
     /\ (regioes[q].k = 1 /\ ~DentroDaImagem(CaixaDaPalavra(regioes[q].i + 1)))
          => ~DentroDaImagem(regioes[q].caixa)

C13_Witness ==
  /\ Sucesso
  /\ \E q \in 1..Len(regioes) :
       /\ \A c \in CaixasDaRegiao(regioes[q]) : DentroDaImagem(c)
       /\ regioes[q].caixa.xmax = LarguraImagem
  /\ \E q \in 1..Len(regioes) :
       /\ regioes[q].k = 1
       /\ ~DentroDaImagem(regioes[q].caixa)

\* the destination folders of the batch
PastasDeSaida == IF opcoes.modo_duplo THEN {"Gabarito", "Prova"} ELSE {"Destacado"}

\* the output files of image k present in the destination folders
SaidasDe(k) == {f \in arquivos : f.nome = k /\ f.pasta \in PastasDeSaida}

\* a step of detectar_e_destacar_palavras (the driver is waiting for its return)
PassoDoNucleo == bpc' = bpc /\ pc' # pc

\* once the loop is done with an image: no output of it when it holds no key
\* phrase, its output in every destination folder when it succeeded with one found
SaidasConformeRelato ==
  (opcoes.deletar_sem_destaque /\ bpc \in {"laco", "relatorio"} /\ atual > 1) =>
    LET k == atual - 1
        contem == \E f \in 1..Len(palavras_chave) :
                     In(Lower(palavras_chave[f]), Lower(conteudo.texto_completo))
    IN  /\ ~contem => SaidasDe(k) = {}
        /\ (resultados[k][1] /\ resultados[k][3]) =>
             /\ contem
             /\ \A p \in PastasDeSaida : \E f \in SaidasDe(k) : f.pasta = p

\* the outputs of the other images stay; the core removes no file; files go away
\* only by the driver, under the deletion option
SoOLoteDeleta ==
  /\ \A k \in 1..imagens : k # atual => SaidasDe(k)' = SaidasDe(k)
  /\ PassoDoNucleo =>
       \A f \in arquivos : \E g \in arquivos' : g.pasta = f.pasta /\ g.nome = f.nome
  /\ (arquivos' # arquivos /\ ~PassoDoNucleo) =>
       /\ opcoes.deletar_sem_destaque
       /\ arquivos' \subseteq arquivos

\* C14: with the deletion option active, once the loop is done with an image the
\* destination folders hold no output file of it when it contains none of the key
\* phrases, and hold its output file in every destination folder when it was
\* processed successfully and a key phrase was found; the output files of the
\* images already done stay as they are until the report, so this holds of every
\* image when processar_imagens finishes.  No step of
\* detectar_e_destacar_palavras removes a file: only the driver deletes.
C14_DelecaoPeloLote == []SaidasConformeRelato /\ [][SoOLoteDeleta]_vars

C14_Witness ==
  /\ bpc = "relatorio"
  /\ opcoes.deletar_sem_destaque
  /\ opcoes.modo_duplo
  /\ imagens = 2
  /\ resultados[1] = <<TRUE, 1, TRUE>>
  /\ resultados[2] = <<TRUE, 0, FALSE>>
  /\ SaidasDe(2) = {}
  /\ Cardinality(SaidasDe(1)) = 2
  /\ imagens_deletadas = 1

\* C18: phrase matching raises no error: whatever the key phrases (also one made
\* only of blanks, or one longer than the word-box sequence) and the word boxes,
\* no exception arises from the scan, and a call whose gate has passed and whose
\* image is read and written without an I/O error returns success=true.
C18_BuscaSemErro ==
  /\ erro \in {"nenhum", "IOError"}
  /\ (pc = "retorno" /\ texto_encontrado /\ erro # "IOError") => retorno[1] = TRUE

\* C19: the rectangle of every highlighted region spans every word box taking
\* part in the match: xmin <= left, left + width <= xmax, ymin <= top and
\* top + height <= ymax for each box of the window, so xmin <= xmax and
\* ymin <= ymax.
C19_RetanguloAbrangeCaixas ==
  \A q \in 1..Len(regioes) :
     /\ regioes[q].caixa.xmin <= regioes[q].caixa.xmax
     /\ regioes[q].caixa.ymin <= regioes[q].caixa.ymax
     /\ \A c \in CaixasDaRegiao(regioes[q]) :
          /\ regioes[q].caixa.xmin <= c.xmin /\ c.xmax <= regioes[q].caixa.xmax
          /\ regioes[q].caixa.ymin <= c.ymin /\ c.ymax <= regioes[q].caixa.ymax

\* C20: in dual mode the Prova call returns the same number of occurrences and
\* the same "found" as the Gabarito call made on the same image and key list.
C20_ModoDuploIgual ==
  (bpc = "prova" /\ pc = "retorno") =>
     /\ retorno[2] = gabarito[2]
     /\ retorno[3] = gabarito[3]

\* t is a number as int() reads it: a non-empty run of digits between blanks
LeComoNumero(t) ==
  \E a \in 0..Len(t), b \in 0..Len(t) :
     /\ a + b < Len(t)
     /\ \A i \in 1..Len(t) :
          IF i <= a \/ i > Len(t) - b THEN t[i] = " " ELSE EhDigito(t[i])

\* the number t reads as
NumeroLido(t) == ValorDecimal(SelectSeq(t, EhDigito))

\* the line is "inicio-fim" with exactly one '-', two numbers and
\* 1 <= inicio <= fim <= total
LinhaBoa(l, total) ==
  \E k \in 1..Len(l) :
     /\ l[k] = "-"
     /\ \A i \in 1..Len(l) : l[i] = "-" => i = k
     /\ LeComoNumero(SubSeq(l, 1, k - 1))
     /\ LeComoNumero(SubSeq(l, k + 1, Len(l)))
     /\ 1 <= NumeroLido(SubSeq(l, 1, k - 1))
     /\ NumeroLido(SubSeq(l, 1, k - 1)) <= NumeroLido(SubSeq(l, k + 1, Len(l)))
     /\ NumeroLido(SubSeq(l, k + 1, Len(l))) <= total

\* some branch of the loop body takes the line that was read
LinhaTratada ==
  FormatoInvalido \/ NumerosInvalidos \/ LimitesInvalidos \/ RetornarIntervalo

\* C15: obter_intervalo_paginas returns only a pair (inicio, fim) with
\* 1 <= inicio <= fim <= total_paginas, read from a line "inicio-fim"; every other
\* line (no '-', a part that is empty or not a number, more than two parts,
\* bounds out of range or reversed) gets an error message and a new prompt; no
\* line is left without a branch that handles it, so no exception leaves the
\* function.
C15_IntervaloValido ==
  /\ ipc \in {"pergunta", "linha", "retornou"}
  /\ ipc = "retornou" =>
       /\ 1 <= retorno_intervalo[1]
       /\ retorno_intervalo[1] <= retorno_intervalo[2]
       /\ retorno_intervalo[2] <= total_paginas
       /\ LinhaBoa(intervalo, total_paginas)
  /\ (ipc = "pergunta" /\ perguntas > 0) =>
       /\ ~LinhaBoa(intervalo, total_paginas)
       /\ mensagem \in {"formato", "numeros", "limites"}
       /\ retorno_intervalo = SemRetorno
  /\ ipc = "linha" => ENABLED LinhaTratada

C15_Witness ==
  /\ ipc = "retornou"
  /\ perguntas = 2
  /\ mensagem = "limites"
  /\ retorno_intervalo = <<1, 2>>

\* C16: when criar_pdfs_individuais returns True for a list of n distinct image
\* paths, n distinct PDF files have been written to the output folder, one per
\* image.
C16_UmPdfPorImagem ==
  retorno_pdfs = <<TRUE>> => Cardinality(pdfs) = Len(lista_imagens)

RotuloNoRetangulo(n) ==
  LET r == RegioesCobertas[n].caixa
      t == RotulosDesenhados[n]
  IN  /\ r.xmin <= t.x0
      /\ t.x1 + 1 <= r.xmax
      /\ r.ymin <= t.y0
      /\ t.y1 + 1 <= r.ymax

\* C21: the drawn number stays inside its covered rectangle: for every covered
\* region (x, y, width, height) whose label has the extent (tw, th) and the
\* origin (pos_x, pos_y): x <= pos_x, pos_x + tw <= x + width, y <= pos_y and
\* pos_y + th <= y + height.
C21_NumeroNoRetangulo ==
  \A n \in 1..Len(RotulosDesenhados) : RotuloNoRetangulo(n)

\* centre of a region's rectangle, as recorded for numbering
CentroDaRegiao(r) ==
  <<r.xmin + (r.xmax - r.xmin) \div 2, r.ymin + (r.ymax - r.ymin) \div 2>>

\* <<tw // 2, th // 2>> for the extents the code can have used for the n-th
\* label: the measured extent of the glyph box, or the estimate from the font
\* size of the region
MeiasExtensoes(n) ==
  LET r == RegioesCobertas[n].caixa
      t == RotulosDesenhados[n]
      tf == Max({Min({r.xmax - r.xmin, r.ymax - r.ymin}) \div 2, FonteMinima})
  IN  { <<(t.x1 - t.x0 + 1) \div 2, (t.y1 - t.y0 + 1) \div 2>>,
        <<(Len(t.txt) * tf * 6) \div 20, tf \div 2>> }

\* the n-th label starts at max(centre - half extent, top-left + 2) on each axis
OrigemCentradaOuRecuada(n) ==
  LET r == RegioesCobertas[n].caixa
      t == RotulosDesenhados[n]
      c == CentroDaRegiao(r)
  IN  \E m \in MeiasExtensoes(n) :
         /\ t.x0 = Max({c[1] - m[1], r.xmin + 2})
         /\ t.y0 = Max({c[2] - m[2], r.ymin + 2})
         /\ t.x0 \in {c[1] - m[1], r.xmin + 2}
         /\ t.y0 \in {c[2] - m[2], r.ymin + 2}
         /\ t.x0 >= r.xmin + 2
         /\ t.y0 >= r.ymin + 2

\* C22: when a font is available, the origin of each label is, on each axis,
\* max(centre - text_extent // 2, top-left of the region + 2): the label is
\* centred on the recorded centre of the region unless that would start it left
\* of xmin + 2 or above ymin + 2, and then it starts exactly at that inset.
C22_OrigemDoNumero ==
  \A n \in 1..Len(RotulosDesenhados) :
     RotulosDesenhados[n].fonte => OrigemCentradaOuRecuada(n)

\* a label drawn with a font that is centred on the x axis, right of the inset,
\* and moved down to the inset on the y axis
C22_Witness ==
  /\ Sucesso
  /\ \E n \in 1..Len(RotulosDesenhados) :
       LET r == RegioesCobertas[n].caixa
           t == RotulosDesenhados[n]
           c == CentroDaRegiao(r)
       IN  /\ t.fonte
           /\ t.x0 > r.xmin + 2
           /\ t.x0 = c[1] - (t.x1 - t.x0 + 1) \div 2
           /\ t.y0 = r.ymin + 2
           /\ c[2] - (t.y1 - t.y0 + 1) \div 2 < r.ymin + 2

\* the draw calls of the given kind in a sequence of draw calls
DoTipo(ops, tipo) == SelectSeq(ops, LAMBDA op : op.tipo = tipo)

\* an image with the words visible: outlines only
SoContornos(ops) == DoTipo(ops, "fill") = <<>> /\ DoTipo(ops, "text") = <<>>

\* an image with every outlined region covered first
TodasCobertas(ops) ==
  /\ Len(DoTipo(ops, "fill")) = Len(DoTipo(ops, "outline"))
  /\ \A i \in 1..Len(ops) :
       ops[i].tipo = "outline" =>
         /\ i > 1
         /\ ops[i - 1].tipo = "fill"
         /\ ops[i - 1].x0 = ops[i].x0 + espessura
         /\ ops[i - 1].y0 = ops[i].y0 + espessura

\* the flags of the call in progress are those the mode prescribes
ChamadaConformeModo ==
  pc # "ocioso" =>
    /\ caminho_destino = "Gabarito" =>
         /\ opcoes.modo_duplo
         /\ ~ocultar_palavras /\ ~numerar_palavras
         /\ SoContornos(desenho)
    /\ caminho_destino = "Prova" =>
         /\ opcoes.modo_duplo
         /\ ocultar_palavras
         /\ numerar_palavras = opcoes.numerar_palavras
         /\ TodasCobertas(desenho)
         /\ \A n \in 1..Len(regioes) : regioes[n].coberta
    /\ caminho_destino = "Destacado" =>
         /\ ~opcoes.modo_duplo
         /\ ocultar_palavras = opcoes.ocultar_palavras
         /\ numerar_palavras = (opcoes.ocultar_palavras /\ opcoes.numerar_palavras)
    /\ DoTipo(desenho, "text") # <<>> => opcoes.numerar_palavras

\* the files written are those the mode prescribes
SaidasConformeModo ==
  \A f \in arquivos :
     /\ f.pasta = "Gabarito" => opcoes.modo_duplo /\ SoContornos(f.conteudo)
     /\ f.pasta = "Prova" => opcoes.modo_duplo /\ TodasCobertas(f.conteudo)
     /\ f.pasta = "Destacado" => ~opcoes.modo_duplo
     /\ DoTipo(f.conteudo, "text") # <<>> =>
          /\ opcoes.numerar_palavras
          /\ f.pasta # "Gabarito"

\* numbering is asked for only after a cover answer of 's' or 't'
NumeracaoSoComCobertura ==
  /\ \A a \in Respostas, b \in Respostas, c \in Respostas :
       OpcoesDe(a, b, c).numerar_palavras => b \in {"s", "t"}
  /\ opcoes.numerar_palavras => (opcoes.ocultar_palavras \/ opcoes.modo_duplo)

\* in dual mode an image is finished only after its Gabarito call and its Prova
\* call have both returned
DuasChamadasPorImagem ==
  (opcoes.modo_duplo /\ resultados' # resultados) =>
    /\ bpc = "prova"
    /\ pc = "retorno"
    /\ caminho_destino = "Prova"
    /\ imagem_path = atual
    /\ gabarito # SemRetorno
    /\ Len(resultados') = atual

\* C23: in dual mode every image is processed twice, the Gabarito output has the
\* words visible (no cover, no number) and the Prova output has every matched
\* region covered; numbers appear only in the Prova output and only when
\* numbering was chosen.  numerar_palavras is true only if the cover answer was
\* 's' or 't', and in normal mode the number flag passed to the core is
\* (cover AND number).
C23_ModoDuploEOpcoes ==
  /\ [](ChamadaConformeModo /\ SaidasConformeModo /\ NumeracaoSoComCobertura)
  /\ [][DuasChamadasPorImagem]_vars

\* a dual-mode run with numbering has written both versions of an image, the
\* Prova one with a cover and a number
C23_Witness ==
  /\ bpc = "relatorio"
  /\ opcoes.modo_duplo
  /\ \E g \in arquivos, p \in arquivos :
       /\ g.pasta = "Gabarito" /\ p.pasta = "Prova" /\ g.nome = p.nome
       /\ DoTipo(g.conteudo, "outline") # <<>>
       /\ DoTipo(p.conteudo, "fill") # <<>>
       /\ DoTipo(p.conteudo, "text") # <<>>

\* the OCR entries of the current image with confidence > 0 and a text that is
\* not empty once trimmed, by index
EntradasComTexto ==
  {i \in 1..Len(dados_ocr) : dados_ocr[i].conf > 0 /\ Strip(dados_ocr[i].text) # <<>>}

\* the draw calls are one white rectangle per such entry, in OCR order, over
\* exactly [left, top, left + width, top + height]
UmRetanguloPorEntrada(ops) ==
  LET idx == Ordenado(EntradasComTexto)
  IN  /\ Len(ops) = Cardinality(EntradasComTexto)
      /\ \A k \in 1..Len(ops) :
           /\ ops[k].tipo = "fill"
           /\ ops[k].x0 = dados_ocr[idx[k]].left
           /\ ops[k].y0 = dados_ocr[idx[k]].top
           /\ ops[k].x1 = dados_ocr[idx[k]].left + dados_ocr[idx[k]].width
           /\ ops[k].y1 = dados_ocr[idx[k]].top + dados_ocr[idx[k]].height

RECURSIVE SomaDe(_)
SomaDe(q) == IF q = <<>> THEN 0 ELSE Head(q) + SomaDe(Tail(q))

\* C24: in the erase-all-text script every OCR entry with confidence > 0 and a
\* non-empty trimmed text is covered by a white rectangle over exactly
\* [left, top, left+width, top+height], no other entry is covered, the block
\* count returned is the number of such entries, and the total of covered blocks
\* of the final report is the sum of the counts of the images that succeeded.
C24_BlocosCobertos ==
  /\ cpc = "salvar" =>
       /\ UmRetanguloPorEntrada(rabisco)
       /\ total_blocos_cobertos = Cardinality(EntradasComTexto)
  /\ (cpc = "retorno" /\ retorno_cobrir[1]) =>
       /\ saida # <<>>
       /\ UmRetanguloPorEntrada(saida[1])
       /\ retorno_cobrir[2] = Cardinality(EntradasComTexto)
  /\ (cpc = "retorno" /\ ~retorno_cobrir[1]) => saida = <<>> /\ retorno_cobrir[2] = 0
  /\ total_blocos_texto = SomaDe(blocos)
  /\ processadas = Len(blocos)
  /\ cpc = "relatorio" => processadas + com_erro = n_imagens

\* the second image has an entry of confidence 0 and an entry of blank text
\* left alone and one block covered, after a first image with two blocks
C24_Witness ==
  /\ cpc = "retorno"
  /\ retorno_cobrir = <<TRUE, 1>>
  /\ blocos = <<2>>
  /\ \E i \in 1..Len(dados_ocr) : dados_ocr[i].conf <= 0
  /\ Len(dados_ocr) = 2

\* a is an initial part of b
PrefixoDe(a, b) == Len(a) <= Len(b) /\ SubSeq(b, 1, Len(a)) = a

\* extrair_imagens_pdf_anatomia, once the document is open, is never left by an
\* exception, and ends with the document closed and the summary printed
AnatomiaSemInterrupcao ==
  extrator = "anatomia" =>
    /\ epc = "abortado" => documento = "nenhum" /\ erros_de_pagina = <<>>
    /\ epc = "relatado" =>
         /\ pagina = Len(paginas) + 1
         /\ documento = "fechado"
         /\ relatado # SemRetorno
    /\ \A k \in 1..Len(erros_de_pagina) : erros_de_pagina[k] < pagina
    /\ \A k \in 1..(Len(erros_de_pagina) - 1) : erros_de_pagina[k] < erros_de_pagina[k + 1]

\* the page loop takes the pages one by one, each once, whatever happened on
\* the page before, and the files saved so far stay
PaginaPorPagina ==
  extrator = "anatomia" =>
    /\ pagina' \in {pagina, pagina + 1}
    /\ pagina' = pagina + 1 => (pagina = 0 \/ pagina <= Len(paginas))
    /\ PrefixoDe(salvos, salvos')
    /\ epc = "pagina" => epc' \in {"pagina", "relatado"}
    /\ erros_de_pagina' # erros_de_pagina =>
         /\ erros_de_pagina' = Append(erros_de_pagina, pagina)
         /\ pagina' = pagina + 1
         /\ epc' = "pagina"

\* C25: in extrair_imagens_pdf_anatomia an error while rendering or cropping a
\* page is reported and does not interrupt the run: every later page is still
\* taken by the loop exactly once, the images already saved remain, and the
\* run ends with the document closed and the final summary printed.
C25_ErroDePaginaNaoInterrompe ==
  /\ []AnatomiaSemInterrupcao
  /\ [][PaginaPorPagina]_vars
  /\ (extrator = "anatomia" /\ epc = "pagina") ~> (epc = "relatado")

\* the first page failed after an image of it was saved, the second page gave
\* its images, and the summary was printed
C25_Witness ==
  /\ extrator = "anatomia"
  /\ epc = "relatado"
  /\ paginas = <<2, 2>>
  /\ erros_de_pagina = <<1>>
  /\ salvos = <<1, 2, 3>>
  /\ contador = 3

\* the source pages inicio..fim, 1-based and inclusive, in order
PaginasDe(par) == [i \in 1..(par[2] - par[1] + 1) |-> par[1] + i - 1]

RECURSIVE PaginasDosIntervalos(_)
\* the pages of the intervals, interval after interval in the order entered
PaginasDosIntervalos(pares) ==
  IF pares = <<>> THEN <<>>
  ELSE PaginasDe(Head(pares)) \o PaginasDosIntervalos(Tail(pares))

RECURSIVE TotalDePaginas(_)
\* the sum of (fim - inicio + 1) over the intervals
TotalDePaginas(pares) ==
  IF pares = <<>> THEN 0
  ELSE (Head(pares)[2] - Head(pares)[1] + 1) + TotalDePaginas(Tail(pares))

\* C26: when extrair_paginas_pdf returns True with combinar, it has written one
\* file whose pages are the source pages inicio..fim of each interval, in the
\* order the intervals were entered (overlapping intervals repeat pages), so its
\* page count is the sum of (fim - inicio + 1); without combinar it has written,
\* for each interval, a file holding exactly that interval's pages in order.
C26_PaginasExtraidas ==
  retorno_dividir = <<TRUE>> =>
    IF combinar
    THEN /\ Cardinality(arquivos_saida) = 1
         /\ \A f \in arquivos_saida :
              /\ f.nome = <<"combinado">>
              /\ f.paginas = PaginasDosIntervalos(intervalos)
              /\ Len(f.paginas) = TotalDePaginas(intervalos)
    ELSE /\ \A k \in 1..Len(intervalos) :
              \E f \in arquivos_saida :
                 /\ f.nome = <<Str(intervalos[k][1]), "-", Str(intervalos[k][2])>>
                 /\ f.paginas = PaginasDe(intervalos[k])
         /\ \A f \in arquivos_saida :
              \E k \in 1..Len(intervalos) : f.paginas = PaginasDe(intervalos[k])
         /\ \A f, g \in arquivos_saida : f.nome = g.nome => f = g

\* a combined file of two overlapping intervals that repeats a page
C26_Witness ==
  /\ retorno_dividir = <<TRUE>>
  /\ combinar
  /\ intervalos = <<<<2, 3>>, <<1, 2>>>>
  /\ \E f \in arquivos_saida : f.paginas = <<2, 3, 1, 2>>

\* the images that succeeded and had at least one occurrence highlighted
ImagensComDestaque ==
  {k \in 1..Len(resultados) : resultados[k][1] /\ resultados[k][2] >= 1}

\* C27: the figure reported as "images with occurrences found",
\* imagens_processadas - imagens_sem_palavras, is the number of images that
\* succeeded with at least one occurrence highlighted; equivalently, an image
\* reported as holding a key phrase has at least one occurrence highlighted.
C27_ImagensComOcorrencias ==
  /\ \A k \in 1..Len(resultados) : resultados[k][3] => resultados[k][2] >= 1
  /\ bpc = "relatorio" =>
       imagens_processadas - imagens_sem_palavras = Cardinality(ImagensComDestaque)

====
